---- MODULE Spec2Model ----
(***************************************************************************)
(* Orchestration core of the dual-bot companion: bounded conversation      *)
(* history, segment cache, smart router and the dual-agent coordinator     *)
(* (idle timers, idle bursts, cross-agent bounce).                         *)
(*                                                                         *)
(* Each component has its own specification over the shared variables;     *)
(* a component's actions leave the other components' variables unchanged.  *)
(***************************************************************************)
EXTENDS Integers, Sequences, FiniteSets, Bags, TLC

VARIABLES
    \* ---- bounded history (dualBotService.conversationHistory) ----
    conversationHistory,   \* Map userId -> array of turns
    appendCount,           \* history variable: turns appended per user since the key was created
    \* ---- segment cache (segmentService) ----
    segmentCache,          \* Map id -> [content, chatId, createdAt]
    segNow,                \* Date.now() as seen by the segment service
    putLog,                \* history variable: id -> content and time of the last cacheSegment that returned it
    getLog,                \* history variable: the last getSegment call and what it returned (a set of at most one record)
    \* ---- smart router (smartRouter) ----
    usageCounter,          \* this.usageCounter = {gemini, grok, total}
    selectIn,              \* the arguments of a selectModel call: [analysis, forceModel]
    decision,              \* the routing decision last returned (a set of at most one record)
    routeLog,              \* history variable: the last route() call: counter before it, provider chosen
    messageIn,             \* the message under classification: [null, text]
    lastAnalysis,          \* the outcome of the last analyzeMessage call (a set of at most one record)
    firstAnalysis,         \* history variable: the outcome of the first analyzeMessage call on messageIn
    \* ---- dual-agent coordinator (avatarService, dualBotService, groupMemoryService) ----
    dateNow,               \* Date.now(), in minutes
    timers,                \* the event loop's pending setTimeout callbacks (a bag of records)
    idleChatTimer,         \* avatarService.idleChatTimer: group -> handle of the timer it installed last
    lastGroupActivity,     \* avatarService.lastGroupActivity: group -> time (0 when absent)
    lastIdleChat,          \* avatarService.lastIdleChat: group -> time (0 when absent)
    idleTimers,            \* dualBotService.idleTimers: group -> handle of the timer it installed last
    lastActivityTime,      \* groupMemoryService.lastActivityTime: group -> time (0 when absent)
    handlers,              \* message handlers suspended at an await
    bursts,                \* running triggerIdleChatV2 calls
    inbound,               \* history variable: the last inbound message handled since the clock advanced and what it did to the idle timer
    lastSent,              \* history variable: the last message an agent sent since the clock advanced
    burstLog,              \* history variable: group -> start time of its last burst (0 when none)
    dualIdle,              \* history variable: group -> what isGroupIdle answered dualBotService.triggerIdleChat since the clock advanced
    inboundCount,          \* number of inbound messages so far
    \* ---- reply path (DualBotService.handleBongBongMessage, BongBongService.generateResponse) ----
    dualSource,            \* which of the two DualBotService sources runs
    handling,              \* the handleBongBongMessage call: [pc, kind, isGroup, avatarBot, error]
    routing,               \* the model id smartRouter.route chose for the call ("none" before)
    attempts,              \* the model ids whose API was called, in order
    channel,               \* the messages the primary agent has sent to the chat, in order
    shadowCalls,           \* the respondToBongBong calls scheduled with setTimeout, in order
    replySend,             \* the last run of a reply-send path and how it ended (a set of at most one record)
    \* ---- calls of methods that only compute (smartRouter.getStats, segmentService.splitIntoSegments) ----
    lastStats,             \* what the last getStats call returned (a set of at most one record)
    splitIn,               \* the text given to splitIntoSegments: its paragraphs, in order
    splitOut,              \* what splitIntoSegments returned for it (a set of at most one sequence of segments)
    \* ---- further handlers of the two bots and the services they call ----
    privateCalls,          \* handleBongBongMessage calls for private chats: message -> how far the call has come
    pressed,               \* the last button pressed and what handleSegmentCallback made of it (a set of at most one record)
    notionSync,            \* the NotionSyncService instance, the syncs and compressions it is awaiting, and what reached Notion
    pendingAction,         \* DualBotService.pendingAction, a Map: user -> the type of the action that waits for that user's input
    lastText,              \* the last text received by the message handler and what became of it (a set of at most one record)
    dailyPraise,           \* AvatarService.dailyPraiseTriggered, the triggerDailyPraise calls under way, the calendar day and the praises sent
    stopped                \* whether stop() has returned

histVars == <<conversationHistory, appendCount>>
segVars  == <<segmentCache, segNow, putLog, getLog>>
routerVars == <<usageCounter, selectIn, decision, routeLog, messageIn, lastAnalysis, firstAnalysis>>
coordVars == <<dateNow, timers, idleChatTimer, lastGroupActivity, lastIdleChat, idleTimers,
               lastActivityTime, handlers, bursts, inbound, lastSent, burstLog, dualIdle,
               inboundCount>>
replyVars == <<dualSource, handling, routing, attempts, channel, shadowCalls, replySend>>
callVars == <<lastStats, splitIn, splitOut>>
handlerVars == <<privateCalls, pressed, notionSync, pendingAction, lastText, dailyPraise, stopped>>
vars     == <<conversationHistory, appendCount, segmentCache, segNow, putLog, getLog,
             usageCounter, selectIn, decision, routeLog, messageIn, lastAnalysis, firstAnalysis,
             dateNow, timers, idleChatTimer, lastGroupActivity, lastIdleChat, idleTimers,
             lastActivityTime, handlers, bursts, inbound, lastSent, burstLog, dualIdle,
             inboundCount,
             dualSource, handling, routing, attempts, channel, shadowCalls, replySend,
             lastStats, splitIn, splitOut,
             privateCalls, pressed, notionSync, pendingAction, lastText, dailyPraise, stopped>>

None == "none"

\* the state of each component after construction
InitHistoryIdle ==
    /\ conversationHistory = << >>
    /\ appendCount = << >>

InitSegmentIdle ==
    /\ segmentCache = << >>
    /\ segNow = 0
    /\ putLog = << >>
    /\ getLog = {}

\* what each component's actions leave alone
histFrame   == <<segVars, routerVars, coordVars, replyVars, callVars, handlerVars>>
segFrame    == <<histVars, routerVars, coordVars, replyVars, callVars, handlerVars>>
routerFrame == <<histVars, segVars, coordVars, replyVars, callVars, handlerVars>>
coordFrame  == <<histVars, segVars, routerVars, replyVars, callVars, handlerVars>>
replyFrame  == <<histVars, segVars, routerVars, coordVars, callVars, handlerVars>>
callFrame   == <<histVars, segVars, coordVars, replyVars, handlerVars>>
handlerFrame == <<segVars, routerVars, coordVars, replyVars, callVars>>

\* no message is being handled by handleBongBongMessage
NoHandling == [pc |-> "idle", kind |-> "none", isGroup |-> FALSE, avatarBot |-> FALSE, error |-> "none"]

InitReplyIdle ==
    /\ dualSource = "dualBotService.js"
    /\ handling = NoHandling
    /\ routing = "none"
    /\ attempts = << >>
    /\ channel = << >>
    /\ shadowCalls = << >>
    /\ replySend = {}

\* no call of getStats or splitIntoSegments has been made
InitCallIdle ==
    /\ lastStats = {}
    /\ splitIn = << >>
    /\ splitOut = {}

\* no private message is being handled
InitPrivateIdle == privateCalls = << >>

\* no button has been pressed
InitPressedIdle == pressed = {}

\* the Notion sync service was just constructed
InitNotionIdle == notionSync = [databaseId |-> TRUE, messageBuffer |-> << >>, totalMessages |-> 0, added |-> 0, syncs |-> << >>, compressing |-> 0, compressLog |-> 0, inserted |-> {}, overlap |-> 0]

\* no action is pending
InitPendingIdle == pendingAction = << >>

\* no text has been received
InitLastTextIdle == lastText = {}

\* no daily praise has been asked for
InitPraiseIdle == dailyPraise = [triggered |-> << >>, calls |-> << >>, today |-> 1, invoked |-> 0, sent |-> << >>]

\* the services are running
InitStoppedIdle == stopped = FALSE

\* the further handlers have nothing to do
InitHandlerIdle ==
    /\ InitPrivateIdle
    /\ InitPressedIdle
    /\ InitNotionIdle
    /\ InitPendingIdle
    /\ InitLastTextIdle
    /\ InitPraiseIdle
    /\ InitStoppedIdle

\* what the actions about one of these variables leave alone, and where the others start
privateCallsFrame == <<pressed, notionSync, pendingAction, lastText, dailyPraise, stopped>>
InitPrivateIdleRest ==
    /\ InitPressedIdle
    /\ InitNotionIdle
    /\ InitPendingIdle
    /\ InitLastTextIdle
    /\ InitPraiseIdle
    /\ InitStoppedIdle

pressedFrame == <<privateCalls, notionSync, pendingAction, lastText, dailyPraise, stopped>>
InitPressedIdleRest ==
    /\ InitPrivateIdle
    /\ InitNotionIdle
    /\ InitPendingIdle
    /\ InitLastTextIdle
    /\ InitPraiseIdle
    /\ InitStoppedIdle

notionSyncFrame == <<privateCalls, pressed, pendingAction, lastText, dailyPraise, stopped>>
InitNotionIdleRest ==
    /\ InitPrivateIdle
    /\ InitPressedIdle
    /\ InitPendingIdle
    /\ InitLastTextIdle
    /\ InitPraiseIdle
    /\ InitStoppedIdle

pendingActionFrame == <<privateCalls, pressed, notionSync, lastText, dailyPraise, stopped>>
InitPendingIdleRest ==
    /\ InitPrivateIdle
    /\ InitPressedIdle
    /\ InitNotionIdle
    /\ InitLastTextIdle
    /\ InitPraiseIdle
    /\ InitStoppedIdle

lastTextFrame == <<privateCalls, pressed, notionSync, pendingAction, dailyPraise, stopped>>
InitLastTextIdleRest ==
    /\ InitPrivateIdle
    /\ InitPressedIdle
    /\ InitNotionIdle
    /\ InitPendingIdle
    /\ InitPraiseIdle
    /\ InitStoppedIdle

dailyPraiseFrame == <<privateCalls, pressed, notionSync, pendingAction, lastText, stopped>>
InitPraiseIdleRest ==
    /\ InitPrivateIdle
    /\ InitPressedIdle
    /\ InitNotionIdle
    /\ InitPendingIdle
    /\ InitLastTextIdle
    /\ InitStoppedIdle

stoppedFrame == <<privateCalls, pressed, notionSync, pendingAction, lastText, dailyPraise>>
InitStoppedIdleRest ==
    /\ InitPrivateIdle
    /\ InitPressedIdle
    /\ InitNotionIdle
    /\ InitPendingIdle
    /\ InitLastTextIdle
    /\ InitPraiseIdle

NoSelect == [analysis |-> [category |-> "none", score |-> 0, complexity |-> 0], forceModel |-> ""]
\* semanticPatterns in registry (Object.entries) order
Categories ==
    <<"reasoning", "health", "emotional", "humor", "writing", "fortune", "lifestyle", "casual">>

CategorySet == {Categories[i] : i \in 1..Len(Categories)}

\* A message, as the classifier sees it: its length, the number of keywords and of
\* patterns of each category it matches, and its number of question marks.
ZeroHits == [c \in CategorySet |-> 0]
Hit(c, n) == [ZeroHits EXCEPT ![c] = n]
MkText(len, qmarks, kw, pat) == [len |-> len, qmarks |-> qmarks, kw |-> kw, pat |-> pat]

\* the empty string, and a null or undefined message
EmptyText == MkText(0, 0, ZeroHits, ZeroHits)
NullMessage == [null |-> TRUE, text |-> EmptyText]
Message(text) == [null |-> FALSE, text |-> text]

\* no analyzeMessage call is remembered
InitClassifyIdle ==
    /\ messageIn = NullMessage
    /\ lastAnalysis = {}
    /\ firstAnalysis = {}

InitRouterIdle ==
    /\ usageCounter = [gemini |-> 0, grok |-> 0, total |-> 0]
    /\ selectIn = NoSelect
    /\ decision = {}
    /\ routeLog = {}
    /\ InitClassifyIdle

\* AVATAR_PERSONA.idleChat.minIdleMinutes and maxIdleMinutes
minIdleMinutes == 30
maxIdleMinutes == 60

\* the clock advances in steps of half the idle threshold and starts after the epoch, so
\* that a recorded time is never 0 (which the services read as "no record")
TimeStep  == minIdleMinutes \div 2
StartTime == TimeStep

\* the groups both bots are members of
Groups == {"g1"}

\* a setTimeout callback: which callback, for which group, when it is due, and for the
\* callbacks that send a message, how many agent messages deep in a reaction chain that
\* message is and which turn of which burst it reacts to
Timer(kind, g, due, hops, burst, turn) ==
    [kind |-> kind, g |-> g, due |-> due, hops |-> hops, burst |-> burst, turn |-> turn]
NoTimer == Timer("none", "none", 0, 0, 0, 0)

NoInbound == [svc |-> "none", g |-> "none", kind |-> "none", installed |-> FALSE,
              finite |-> FALSE, delay |-> 0, cleared |-> FALSE]
NoSent == [g |-> "none", kind |-> "none", hops |-> 0]

InitCoordIdle ==
    /\ dateNow = StartTime
    /\ timers = EmptyBag
    /\ idleChatTimer = [g \in Groups |-> NoTimer]
    /\ lastGroupActivity = [g \in Groups |-> 0]
    /\ lastIdleChat = [g \in Groups |-> 0]
    /\ idleTimers = [g \in Groups |-> NoTimer]
    /\ lastActivityTime = [g \in Groups |-> 0]
    /\ handlers = {}
    /\ bursts = {}
    /\ inbound = NoInbound
    /\ lastSent = NoSent
    /\ burstLog = [g \in Groups |-> 0]
    /\ dualIdle = [g \in Groups |-> "none"]
    /\ inboundCount = 0

Min(a, b) == IF a < b THEN a ELSE b
Max(a, b) == IF a > b THEN a ELSE b

(***************************************************************************)
(* Bounded in-memory history                                               *)
(***************************************************************************)
Users == {"u1", "u2"}

\* cap of the in-memory history (history.length > 20)
MaxHistory == 20

\* bound of the model: appends per key
MaxAppends == 23

\* The n-th turn appended for a key: handlers append the user turn, then the
\* assistant turn; the content is the index of the turn.
Turn(n) == [role |-> IF n % 2 = 1 THEN "user" ELSE "assistant", content |-> n]

\* getHistory: the stored array, created empty on first access
getHistory(userId) ==
    IF userId \in DOMAIN conversationHistory THEN conversationHistory[userId] ELSE << >>

\* a plausible slip: pop() (drops the newest turn) instead of shift()
AddToHistoryPop(history, message) ==
    LET pushed == Append(history, message)
    IN  IF Len(pushed) > MaxHistory THEN SubSeq(pushed, 1, Len(pushed) - 1) ELSE pushed

\* addToHistory on the array: push, then shift once when longer than the cap
AddToHistoryOp(history, message) ==
    LET pushed == Append(history, message)
    IN  IF Len(pushed) > MaxHistory THEN Tail(pushed) ELSE pushed

AddToHistory(userId) ==
    /\ (IF userId \in DOMAIN appendCount THEN appendCount[userId] ELSE 0) < MaxAppends
    /\ LET n == (IF userId \in DOMAIN appendCount THEN appendCount[userId] ELSE 0) + 1
           h == AddToHistoryOp(getHistory(userId), Turn(n))
       IN  /\ conversationHistory' =
                [u \in DOMAIN conversationHistory \cup {userId} |->
                    IF u = userId THEN h ELSE conversationHistory[u]]
           /\ appendCount' =
                [u \in DOMAIN appendCount \cup {userId} |->
                    IF u = userId THEN n ELSE appendCount[u]]
    /\ UNCHANGED histFrame

\* /clear: conversationHistory.delete(userId)
HandleClear(userId) ==
    /\ userId \in DOMAIN conversationHistory
    /\ conversationHistory' = [u \in DOMAIN conversationHistory \ {userId} |-> conversationHistory[u]]
    /\ appendCount' = [u \in DOMAIN appendCount \ {userId} |-> appendCount[u]]
    /\ UNCHANGED histFrame

InitHistory ==
    /\ InitHistoryIdle
    /\ InitSegmentIdle
    /\ InitRouterIdle
    /\ InitCoordIdle
    /\ InitHandlerIdle
    /\ InitCallIdle
    /\ InitReplyIdle

NextHistory ==
    \/ \E u \in Users : AddToHistory(u)
    \/ \E u \in Users : HandleClear(u)

SpecHistory == InitHistory /\ [][NextHistory]_vars

\* C2: after every addToHistory call the stored history of a key holds at most
\* 20 turns and equals the last min(n, 20) of the n turns appended, in append order.
HistoryBoundFIFO ==
    \A u \in DOMAIN conversationHistory :
        LET n == appendCount[u]
            k == Min(n, MaxHistory)
            h == conversationHistory[u]
        IN  /\ Len(h) <= MaxHistory
            /\ Len(h) = k
            /\ \A i \in 1..k : h[i] = Turn(n - k + i)

\* C2 witness: a key that has evicted turns: more than 20 appended, the oldest kept
\* turn is the (n-19)-th.
HistoryEvictedWitness ==
    \E u \in DOMAIN conversationHistory :
        /\ appendCount[u] > MaxHistory + 1
        /\ Len(conversationHistory[u]) = MaxHistory
        /\ conversationHistory[u][1].content = appendCount[u] - MaxHistory + 1

(***************************************************************************)
(* Segment cache                                                           *)
(***************************************************************************)
Contents == {"c1", "c2"}
Chats    == {"g1"}
\* values of the random suffix Math.random().toString(36).substr(2, 6)
Rands    == {"r1", "r2"}

\* this.cacheExpiry = 30 * 60 * 1000 (milliseconds)
cacheExpiry == 30 * 60 * 1000

\* bounds of the model: millisecond ticks within a TTL period, TTL-long jumps of
\* the clock, distinct ids handed out
MaxMsTicks  == 1
MaxTtlJumps == 2
MaxPuts     == 2

\* `${chatId}_${Date.now()}_${random suffix}`
SegmentId(chatId, now, rand) == <<chatId, now, rand>>

\* a plausible slip: >= instead of > (an entry exactly TTL old is dropped)
IsExpiredInclusive(entry, now) == now - entry.createdAt >= cacheExpiry

\* now - createdAt > this.cacheExpiry
IsExpired(entry, now) == now - entry.createdAt > cacheExpiry

\* a plausible slip: cacheSegment without its call of cleanExpiredCache
cleanExpiredCacheSkipped(cache, now) == cache

\* cleanExpiredCache: delete every entry older than the TTL
cleanExpiredCache(cache, now) ==
    [id \in {i \in DOMAIN cache : ~IsExpired(cache[i], now)} |-> cache[id]]

\* cacheSegment(content, chatId): store under a fresh id, clean, return the id
cacheSegment(content, chatId, rand) ==
    LET id    == SegmentId(chatId, segNow, rand)
        entry == [content |-> content, chatId |-> chatId, createdAt |-> segNow]
        set   == [i \in DOMAIN segmentCache \cup {id} |->
                    IF i = id THEN entry ELSE segmentCache[i]]
    IN  /\ (Cardinality(DOMAIN putLog) < MaxPuts \/ id \in DOMAIN putLog)
        /\ segmentCache' = cleanExpiredCache(set, segNow)
        /\ putLog' = [i \in DOMAIN putLog \cup {id} |->
                        IF i = id THEN [content |-> content, createdAt |-> segNow]
                        ELSE putLog[i]]
        /\ UNCHANGED <<segNow, getLog>>
        /\ UNCHANGED segFrame

\* what getSegment(segmentId) returns: the cached entry, or null
Null == [found |-> FALSE]
Found(entry) == [found |-> TRUE, content |-> entry.content, chatId |-> entry.chatId,
                 createdAt |-> entry.createdAt]

GetResult(cache, segmentId, now) ==
    IF segmentId \notin DOMAIN cache THEN Null
    ELSE IF IsExpired(cache[segmentId], now) THEN Null
    ELSE Found(cache[segmentId])

\* getSegment(segmentId): an expired entry met by the lookup is deleted
getSegment(segmentId) ==
    /\ getLog' =
            {[id     |-> segmentId,
              at     |-> segNow,
              put    |-> IF segmentId \in DOMAIN putLog
                         THEN [known |-> TRUE, content |-> putLog[segmentId].content,
                               createdAt |-> putLog[segmentId].createdAt]
                         ELSE [known |-> FALSE],
              result |-> GetResult(segmentCache, segmentId, segNow)]}
    /\ segmentCache' =
            IF segmentId \in DOMAIN segmentCache /\ IsExpired(segmentCache[segmentId], segNow)
            THEN [i \in DOMAIN segmentCache \ {segmentId} |-> segmentCache[i]]
            ELSE segmentCache
    /\ UNCHANGED <<segNow, putLog>>
    /\ UNCHANGED segFrame

\* Date.now() advances by one millisecond
SegTickMs ==
    /\ segNow % cacheExpiry < MaxMsTicks
    /\ segNow' = segNow + 1
    /\ UNCHANGED <<segmentCache, putLog, getLog>>
    /\ UNCHANGED segFrame

\* Date.now() advances by the length of the TTL
SegJumpTtl ==
    /\ segNow \div cacheExpiry < MaxTtlJumps
    /\ segNow' = segNow + cacheExpiry
    /\ UNCHANGED <<segmentCache, putLog, getLog>>
    /\ UNCHANGED segFrame

UnknownId == <<"g1", -1, "r1">>

InitSegment ==
    /\ InitSegmentIdle
    /\ InitHistoryIdle
    /\ InitRouterIdle
    /\ InitCoordIdle
    /\ InitHandlerIdle
    /\ InitCallIdle
    /\ InitReplyIdle

NextSegment ==
    \/ \E c \in Contents, g \in Chats, r \in Rands : cacheSegment(c, g, r)
    \/ \E id \in DOMAIN putLog \cup {UnknownId} : getSegment(id)
    \/ SegTickMs
    \/ SegJumpTtl

SpecSegment == InitSegment /\ [][NextSegment]_vars

\* C3: getSegment applied to an id returned by cacheSegment returns the content
\* that cacheSegment stored while now - createdAt <= TTL, and null once
\* now - createdAt > TTL; for an id never returned it returns null.
SegmentRoundTrip ==
    \A g \in getLog :
        IF g.put.known /\ g.at - g.put.createdAt <= cacheExpiry
        THEN g.result.found /\ g.result.content = g.put.content
        ELSE ~g.result.found

\* C3 witness: an id was looked up exactly TTL after its Put, after a later Put of
\* another segment had cleaned the cache, and the content came back.
SegmentRoundTripWitness ==
    \E g \in getLog :
        /\ g.put.known
        /\ g.at - g.put.createdAt = cacheExpiry
        /\ g.result.found /\ g.result.content = g.put.content
        /\ \E i \in DOMAIN putLog : putLog[i].createdAt > g.put.createdAt

\* C26: expired segments leave the cache only when it is accessed: after every
\* cacheSegment the cache holds no entry older than the TTL, a getSegment that
\* meets an expired entry deletes it and returns null, and a step that is neither
\* leaves the cache as it is.
ExpiredEvictedOnAccessOnly ==
    [][/\ putLog' # putLog =>
             \A i \in DOMAIN segmentCache' : ~IsExpired(segmentCache'[i], segNow')
       /\ getLog' # getLog =>
             \A g \in getLog' :
                 (g.id \in DOMAIN segmentCache /\ IsExpired(segmentCache[g.id], segNow)) =>
                     /\ g.id \notin DOMAIN segmentCache'
                     /\ ~g.result.found
       /\ (putLog' = putLog /\ getLog' = getLog) => segmentCache' = segmentCache]_vars

\* C26 witness: two segments were stored and outlived the TTL in the cache; a
\* getSegment for one of them removed it and returned null, and the other one,
\* not accessed, is still in the cache.
ExpiredLeftUntilAccessWitness ==
    \E g \in getLog :
        /\ g.put.known
        /\ g.at - g.put.createdAt > cacheExpiry
        /\ ~g.result.found
        /\ g.id \notin DOMAIN segmentCache
        /\ \E i \in DOMAIN segmentCache : IsExpired(segmentCache[i], segNow)

\* C27: every cacheSegment stores its content under an id that no entry of the
\* cache had before the call, also when it follows another cacheSegment for the
\* same chat within the same millisecond.
PutUnderFreshId ==
    [][putLog' # putLog =>
          \A i \in DOMAIN putLog' :
              (i \notin DOMAIN putLog \/ putLog'[i] # putLog[i]) => i \notin DOMAIN segmentCache]_vars

(***************************************************************************)
(* Smart router                                                            *)
(***************************************************************************)
\* EXCLUDED_MODEL_LIST
EXCLUDED_MODEL_LIST ==
    {"grok-4-0709", "grok-3", "grok-2-vision-1212", "grok-2-1212",
     "grok-code-fast-1", "grok-4-1-fast-reasoning"}

\* AVAILABLE_MODELS (config/models.js): provider -> type -> model id
AVAILABLE_MODELS ==
    [gemini |-> [flash    |-> "gemini-2.5-flash",
                 pro      |-> "gemini-2.5-pro",
                 flashExp |-> "gemini-2.0-flash-exp",
                 lite     |-> "gemini-2.5-flash-lite"],
     grok   |-> [mini  |-> "grok-3-mini",
                 fast  |-> "grok-4-fast-non-reasoning",
                 image |-> "grok-2-image-1212"]]

\* modelKey.split('.') for the keys the router builds and the override values tried
SplitKey ==
    [k \in {"gemini.flash", "gemini.pro", "gemini.lite", "grok.mini", "grok.fast",
            "grok.image", "grok.heavy", "openai.gpt", "grok-3", "grok-4-0709",
            "grok-code-fast-1", "gemini-2.5-pro"} |->
        CASE k = "gemini.flash"   -> <<"gemini", "flash">>
          [] k = "gemini.pro"     -> <<"gemini", "pro">>
          [] k = "gemini.lite"    -> <<"gemini", "lite">>
          [] k = "grok.mini"      -> <<"grok", "mini">>
          [] k = "grok.fast"      -> <<"grok", "fast">>
          [] k = "grok.image"     -> <<"grok", "image">>
          [] k = "grok.heavy"     -> <<"grok", "heavy">>
          [] k = "openai.gpt"     -> <<"openai", "gpt">>
          [] k = "grok-3"         -> <<"grok-3">>
          [] k = "grok-4-0709"    -> <<"grok-4-0709">>
          [] k = "grok-code-fast-1" -> <<"grok-code-fast-1">>
          [] k = "gemini-2.5-pro" -> <<"gemini-2", "5-pro">>]

\* context.forceModel values tried; "" stands for an absent (falsy) forceModel
ForceModels ==
    {"", "gemini.pro", "grok.fast", "grok.image", "grok.heavy", "openai.gpt",
     "grok-3", "grok-4-0709", "grok-code-fast-1", "gemini-2.5-pro"}

\* a plausible slip: the key is taken as the model id verbatim
getModelInfoVerbatim(modelKey, reason) ==
    [modelId  |-> modelKey,
     provider |-> SplitKey[modelKey][1],
     reason   |-> reason]

\* getModelInfo(modelKey, reason): AVAILABLE_MODELS[provider]?.[type], or the default
getModelInfo(modelKey, reason) ==
    LET parts    == SplitKey[modelKey]
        provider == parts[1]
        known    == /\ provider \in DOMAIN AVAILABLE_MODELS
                    /\ Len(parts) >= 2
                    /\ parts[2] \in DOMAIN AVAILABLE_MODELS[provider]
    IN  IF ~known
        THEN [modelId |-> "gemini-2.5-flash", provider |-> "gemini", reason |-> reason]
        ELSE [modelId  |-> AVAILABLE_MODELS[provider][parts[2]],
              provider |-> provider,
              reason   |-> reason]

\* the values of Math.random(), in hundredths
RandomDraws == 0..99

\* a plausible slip: the chance of grok is the gap between the 25% target and the
\* observed share (random < 0.25 - grok / total)
selectByRatioGap(counter, random) ==
    IF counter.total = 0 THEN "gemini.flash"
    ELSE IF 4 * counter.grok < counter.total
         THEN IF random * counter.total < 25 * counter.total - 100 * counter.grok
              THEN "grok.mini" ELSE "gemini.flash"
         ELSE "gemini.flash"

\* selectByRatio() for one value of Math.random()
selectByRatioAt(counter, random) ==
    IF counter.total = 0 THEN "gemini.flash"
    ELSE IF 4 * counter.grok < counter.total     \* grok / total < 0.25
         THEN IF random < 25 THEN "grok.mini" ELSE "gemini.flash"
         ELSE "gemini.flash"

\* selectByRatio(): the keys it can return, over the values of Math.random()
selectByRatio(counter) == {selectByRatioAt(counter, random) : random \in RandomDraws}

\* a plausible slip: the complexity rule is tested before the override
selectModelOverrideLate(analysis, forceModel, counter) ==
    IF analysis.complexity >= 6 THEN {getModelInfo("gemini.pro", "deep analysis")}
    ELSE IF forceModel # "" THEN {getModelInfo(forceModel, "user override")}
    ELSE {getModelInfo(k, "daily chat") : k \in selectByRatio(counter)}

\* a plausible slip: the category rules are tested before the complexity rule
selectModelCategoryFirst(analysis, forceModel, counter) ==
    LET category   == analysis.category
        score      == analysis.score
        complexity == analysis.complexity
    IN  IF forceModel # ""
        THEN {getModelInfo(forceModel, "user override")}
        ELSE IF category = "health" /\ score > 8 THEN {getModelInfo("gemini.pro", "health")}
        ELSE IF category = "writing" /\ score > 8 THEN {getModelInfo("gemini.pro", "writing")}
        ELSE IF category = "reasoning" /\ score > 8 THEN {getModelInfo("gemini.pro", "reasoning")}
        ELSE IF category = "emotional" THEN {getModelInfo("grok.fast", "emotional")}
        ELSE IF category = "humor" THEN {getModelInfo("grok.mini", "humor")}
        ELSE IF category = "fortune" THEN {getModelInfo("gemini.pro", "fortune")}
        ELSE IF complexity >= 6 THEN {getModelInfo("gemini.pro", "deep analysis")}
        ELSE {getModelInfo(k, "daily chat") : k \in selectByRatio(counter)}

\* selectModel(analysis, context): the decisions it can return.  Scores are in
\* quarter points (score > 2 is score > 8), complexity in half points
\* (complexity >= 3 is complexity >= 6).
selectModel(analysis, forceModel, counter) ==
    LET category   == analysis.category
        score      == analysis.score
        complexity == analysis.complexity
    IN  IF forceModel # ""
        THEN {getModelInfo(forceModel, "user override")}
        ELSE IF complexity >= 6 THEN {getModelInfo("gemini.pro", "deep analysis")}
        ELSE IF category = "health" /\ score > 8 THEN {getModelInfo("gemini.pro", "health")}
        ELSE IF category = "writing" /\ score > 8 THEN {getModelInfo("gemini.pro", "writing")}
        ELSE IF category = "reasoning" /\ score > 8 THEN {getModelInfo("gemini.pro", "reasoning")}
        ELSE IF category = "emotional" THEN {getModelInfo("grok.fast", "emotional")}
        ELSE IF category = "humor" THEN {getModelInfo("grok.mini", "humor")}
        ELSE IF category = "fortune" THEN {getModelInfo("gemini.pro", "fortune")}
        ELSE {getModelInfo(k, "daily chat") : k \in selectByRatio(counter)}

\* if (this.usageCounter.total >= 100)
UsageCeiling == 100
\* total: 50
HalvedTotal == 50

\* Math.round(x / 2) for x >= 0
RoundHalf(x) == (x + 1) \div 2

\* a plausible slip, suggested by the comment "reset every 100": zero the counters
updateUsageCounterReset(counter, provider) ==
    LET inc == [gemini |-> counter.gemini + (IF provider = "gemini" THEN 1 ELSE 0),
                grok   |-> counter.grok + (IF provider = "grok" THEN 1 ELSE 0),
                total  |-> counter.total + 1]
    IN  IF inc.total >= UsageCeiling
        THEN [gemini |-> 0, grok |-> 0, total |-> 0]
        ELSE inc

\* a plausible slip: the decision's provider is ignored and every decision is
\* counted for gemini
IncrementedGemini(counter, provider) ==
    [gemini |-> counter.gemini + 1,
     grok   |-> counter.grok,
     total  |-> counter.total + 1]

\* the counter after total++ and the provider's counter++
Incremented(counter, provider) ==
    [gemini |-> counter.gemini + (IF provider = "gemini" THEN 1 ELSE 0),
     grok   |-> counter.grok + (IF provider = "grok" THEN 1 ELSE 0),
     total  |-> counter.total + 1]

\* updateUsageCounter(provider)
updateUsageCounter(counter, provider) ==
    LET inc == Incremented(counter, provider)
    IN  IF inc.total >= UsageCeiling
        THEN [gemini |-> RoundHalf(inc.gemini),
              grok   |-> RoundHalf(inc.grok),
              total  |-> HalvedTotal]
        ELSE inc

\* weight of a matched keyword, in quarter points (config.weight * 4)
KeywordPoints ==
    [reasoning |-> 12, health |-> 10, emotional |-> 8, humor |-> 8,
     writing |-> 10, fortune |-> 8, lifestyle |-> 6, casual |-> 4]

\* weight of a matched pattern, in quarter points (config.weight * 1.5 * 4)
PatternPoints == [c \in CategorySet |-> (KeywordPoints[c] * 3) \div 2]

\* scores[category], in quarter points
Scores(text) ==
    [c \in CategorySet |-> KeywordPoints[c] * text.kw[c] + PatternPoints[c] * text.pat[c]]

\* a plausible slip: a category is placed before the categories of equal score, so
\* the category registered last wins a tie
RECURSIVE InsertSortedBeforeEqual(_, _, _)
InsertSortedBeforeEqual(sorted, c, scores) ==
    IF sorted = << >> THEN <<c>>
    ELSE IF scores[c] >= scores[Head(sorted)] THEN <<c>> \o sorted
    ELSE <<Head(sorted)>> \o InsertSortedBeforeEqual(Tail(sorted), c, scores)

\* Object.entries(scores).sort((a, b) => b[1] - a[1]): stable, descending by score
RECURSIVE InsertSorted(_, _, _)
InsertSorted(sorted, c, scores) ==
    IF sorted = << >> THEN <<c>>
    ELSE IF scores[c] > scores[Head(sorted)] THEN <<c>> \o sorted
    ELSE <<Head(sorted)>> \o InsertSorted(Tail(sorted), c, scores)

RECURSIVE SortedFrom(_, _, _)
SortedFrom(i, sorted, scores) ==
    IF i > Len(Categories) THEN sorted
    ELSE SortedFrom(i + 1, InsertSorted(sorted, Categories[i], scores), scores)

sortedCategories(scores) == SortedFrom(1, << >>, scores)

\* a plausible slip: the result is not capped
calculateComplexityUncapped(len, scores) ==
    LET lengthPart == (IF len > 100 THEN 2 ELSE 0) + (IF len > 300 THEN 2 ELSE 0)
        highScoreCategories == Cardinality({c \in CategorySet : scores[c] > 8})
        special == (IF scores["reasoning"] > 12 THEN 4 ELSE 0)
                   + (IF scores["health"] > 12 THEN 3 ELSE 0)
                   + (IF scores["writing"] > 12 THEN 3 ELSE 0)
    IN  lengthPart + highScoreCategories + special

\* a plausible slip: the first length threshold has lost a zero (length > 10)
calculateComplexityShort(len, scores) ==
    LET lengthPart == (IF len > 10 THEN 2 ELSE 0) + (IF len > 300 THEN 2 ELSE 0)
        highScoreCategories == Cardinality({c \in CategorySet : scores[c] > 8})
        special == (IF scores["reasoning"] > 12 THEN 4 ELSE 0)
                   + (IF scores["health"] > 12 THEN 3 ELSE 0)
                   + (IF scores["writing"] > 12 THEN 3 ELSE 0)
    IN  Min(lengthPart + highScoreCategories + special, 10)

\* calculateComplexity(message, scores), in half points (capped at 5 = 10 half points)
calculateComplexity(len, scores) ==
    LET lengthPart == (IF len > 100 THEN 2 ELSE 0) + (IF len > 300 THEN 2 ELSE 0)
        highScoreCategories == Cardinality({c \in CategorySet : scores[c] > 8})
        special == (IF scores["reasoning"] > 12 THEN 4 ELSE 0)
                   + (IF scores["health"] > 12 THEN 3 ELSE 0)
                   + (IF scores["writing"] > 12 THEN 3 ELSE 0)
    IN  Min(lengthPart + highScoreCategories + special, 10)

\* scores[category] when the scores object outlives the call: each score starts from
\* the score the previous call left
CarriedScores(text) ==
    [c \in CategorySet |->
        Scores(text)[c]
        + (IF \E a \in lastAnalysis : ~a.threw
           THEN (CHOOSE a \in lastAnalysis : TRUE).value.allScores[c]
           ELSE 0)]

\* a plausible slip: the scores object is a field of the router, not a local of the call
analyzeMessageCarried(text) ==
    LET scores == CarriedScores(text)
        sorted == sortedCategories(scores)
    IN  [category   |-> sorted[1],
         score      |-> scores[sorted[1]],
         allScores  |-> scores,
         complexity |-> calculateComplexity(text.len, scores),
         messageLength |-> text.len,
         hasQuestion   |-> text.qmarks > 0,
         hasMultipleQuestions |-> text.qmarks > 1]

\* analyzeMessage(message)
analyzeMessage(text) ==
    LET scores == Scores(text)
        sorted == sortedCategories(scores)
    IN  [category   |-> sorted[1],
         score      |-> scores[sorted[1]],
         allScores  |-> scores,
         complexity |-> calculateComplexity(text.len, scores),
         messageLength |-> text.len,
         hasQuestion   |-> text.qmarks > 0,
         hasMultipleQuestions |-> text.qmarks > 1]

\* messages routed in the router specification
RouteTexts ==
    {MkText(20, 0, Hit(c, 1), ZeroHits) : c \in {"health", "emotional", "humor", "lifestyle"}}
    \cup {MkText(20, 0, ZeroHits, ZeroHits),
          MkText(350, 1, Hit("reasoning", 3), ZeroHits),
          MkText(5, 0, ZeroHits, Hit("casual", 1))}

RouteForceModels == {"", "grok-3"}

\* route(message, context): analyse, select, update the usage counter
route(text, forceModel) ==
    \E d \in selectModel(analyzeMessage(text), forceModel, usageCounter) :
        /\ usageCounter' = updateUsageCounter(usageCounter, d.provider)
        /\ decision' = {d}
        /\ routeLog' = {[before |-> usageCounter, provider |-> d.provider]}
        /\ UNCHANGED <<selectIn, messageIn, lastAnalysis, firstAnalysis>>
        /\ UNCHANGED routerFrame

InitRouter ==
    /\ InitRouterIdle
    /\ InitHistoryIdle
    /\ InitSegmentIdle
    /\ InitCoordIdle
    /\ InitHandlerIdle
    /\ InitCallIdle
    /\ InitReplyIdle

NextRouter ==
    \E t \in RouteTexts, f \in RouteForceModels : route(t, f)

SpecRouter == InitRouter /\ [][NextRouter]_vars

\* C40: after every updateUsageCounter call, also one that halves the counters, the
\* provider counters add up to total and total is at least 0 and below 100.
UsageCounterSumsToTotal ==
    routeLog # {} =>
        /\ usageCounter.gemini + usageCounter.grok = usageCounter.total
        /\ 0 <= usageCounter.total /\ usageCounter.total < UsageCeiling

(***************************************************************************)
(* selectModel as a function of its arguments                              *)
(***************************************************************************)
\* bound of the model: provider counts of the sampled usage counters
MaxSampleCount == 3

\* classifications: any category, scores around the "> 2" rule threshold, any
\* complexity from 0 to 5 in half points
Analyses ==
    [category : CategorySet, score : {0, 8, 9, 13}, complexity : 0..10]

CounterSamples ==
    {[gemini |-> g, grok |-> k, total |-> g + k] : g \in 0..MaxSampleCount, k \in 0..MaxSampleCount}

InitSelect ==
    /\ usageCounter \in CounterSamples
    /\ selectIn \in [analysis : Analyses, forceModel : ForceModels]
    /\ decision = {}
    /\ routeLog = {}
    /\ InitClassifyIdle
    /\ InitHistoryIdle
    /\ InitSegmentIdle
    /\ InitCoordIdle
    /\ InitHandlerIdle
    /\ InitCallIdle
    /\ InitReplyIdle

\* one call of selectModel(analysis, context)
ApplySelectModel ==
    /\ decision = {}
    /\ \E d \in selectModel(selectIn.analysis, selectIn.forceModel, usageCounter) :
            decision' = {d}
    /\ UNCHANGED <<usageCounter, selectIn, routeLog, messageIn, lastAnalysis, firstAnalysis>>
    /\ UNCHANGED routerFrame

NextSelect == ApplySelectModel

SpecSelect == InitSelect /\ [][NextSelect]_vars

\* C4: whatever the classification, the usage counter and the override, the
\* decision returned by selectModel never carries a model id of the exclusion list.
ExclusionEnforced ==
    \A d \in decision : d.modelId \notin EXCLUDED_MODEL_LIST

\* C4 witness: selectModel was called with an excluded model id as override and
\* returned the default model instead.
ExclusionWitness ==
    /\ selectIn.forceModel \in EXCLUDED_MODEL_LIST
    /\ \E d \in decision : d.modelId = "gemini-2.5-flash" /\ d.reason = "user override"

\* C10: total never exceeds the ceiling, and an update that brings total to the
\* ceiling replaces every provider counter by half its value, rounded (a non-zero
\* counter stays non-zero), and total by 50.
UsageHalvedAtCeiling ==
    /\ usageCounter.total <= UsageCeiling
    /\ \A r \in routeLog :
         LET inc == Incremented(r.before, r.provider)
         IN  inc.total >= UsageCeiling =>
               /\ \A p \in {"gemini", "grok"} :
                    /\ 2 * usageCounter[p] - inc[p] \in {0, 1}
                    /\ (inc[p] > 0 => usageCounter[p] > 0)
               /\ usageCounter.total < UsageCeiling

\* C10 witness: an update has just brought total to 100 with both providers used,
\* and both counters were halved.
UsageHalvedWitness ==
    \E r \in routeLog :
        /\ Incremented(r.before, r.provider).total = UsageCeiling
        /\ r.before.gemini > 0 /\ r.before.grok > 0
        /\ usageCounter.total = HalvedTotal
        /\ usageCounter.gemini > 0 /\ usageCounter.grok > 0

\* the provider whose counter a decision does not name
OtherProvider(p) == IF p = "gemini" THEN "grok" ELSE "gemini"

\* C11: a routing decision adds exactly one to the counter of the provider named
\* in the returned decision and exactly one to total and leaves the other
\* provider's counter alone; the halving is applied to the counters so
\* incremented, and only when the incremented total has reached the ceiling.
UsageCountedOncePerDecision ==
    \A r \in routeLog : \A d \in decision :
        LET p        == d.provider
            q        == OtherProvider(p)
            incP     == r.before[p] + 1
            incTotal == r.before.total + 1
        IN  /\ p \in {"gemini", "grok"}
            /\ IF incTotal < UsageCeiling
               THEN /\ usageCounter[p] = incP
                    /\ usageCounter[q] = r.before[q]
                    /\ usageCounter.total = incTotal
               ELSE /\ usageCounter[p] = RoundHalf(incP)
                    /\ usageCounter[q] = RoundHalf(r.before[q])
                    /\ usageCounter.total = HalvedTotal

\* C11 witness: a decision naming grok was counted below the ceiling: grok and
\* total went up by one and gemini, which had been used before, kept its count.
UsageCountedWitness ==
    \E r \in routeLog : \E d \in decision :
        /\ d.provider = "grok"
        /\ r.before.gemini > 0
        /\ r.before.total + 1 < UsageCeiling
        /\ usageCounter.grok = r.before.grok + 1
        /\ usageCounter.gemini = r.before.gemini
        /\ usageCounter.total = r.before.total + 1

\* the chance, in hundredths, that selectByRatio() returns the grok key
GrokChance(counter) ==
    Cardinality({random \in RandomDraws : selectByRatioAt(counter, random) = "grok.mini"})

\* the usage counter has an observed grok share and it is below the 25% target
BelowTarget(counter) == counter.total > 0 /\ 4 * counter.grok < counter.total

\* the counters on which a ratio-balanced ("daily chat") decision was just made
RatioDecided ==
    {r.before : r \in {x \in routeLog : \E d \in decision : d.reason = "daily chat"}}

\* C13 as stated: in ratio balancing, when grok's observed share is below the target
\* grok is selected with a chance equal to the gap between the target and the
\* observed share (25 - 100 * grok / total hundredths); when the share is at or
\* above the target the cheap gemini model is always selected.
GrokChanceIsGap ==
    \A c \in RatioDecided :
        IF BelowTarget(c)
        THEN GrokChance(c) * c.total = 25 * c.total - 100 * c.grok
        ELSE /\ GrokChance(c) = 0
             /\ \A d \in decision : d.modelId = AVAILABLE_MODELS.gemini.flash

\* C13 amended: below the target grok is selected with a fixed chance of 25%,
\* whatever the gap; at or above the target, and before any decision has been
\* counted, the cheap gemini model is always selected.
GrokChanceIsQuarter ==
    \A c \in RatioDecided :
        IF BelowTarget(c)
        THEN /\ GrokChance(c) = 25
             /\ \A d \in decision :
                  d.modelId \in {AVAILABLE_MODELS.grok.mini, AVAILABLE_MODELS.gemini.flash}
        ELSE /\ GrokChance(c) = 0
             /\ \A d \in decision : d.modelId = AVAILABLE_MODELS.gemini.flash

\* C13 witness: a ratio-balanced decision picked grok while grok's observed share
\* was above zero and below the target, so the gap was smaller than 25 points.
GrokPickedBelowTargetWitness ==
    /\ \E c \in RatioDecided : BelowTarget(c) /\ c.grok > 0
    /\ \E d \in decision : d.modelId = AVAILABLE_MODELS.grok.mini

\* the model an override selects when it is the "provider.type" key of a
\* configured model
ConfiguredOverrides ==
    [k \in {"gemini.pro", "grok.fast", "grok.image"} |->
        CASE k = "gemini.pro" -> AVAILABLE_MODELS.gemini.pro
          [] k = "grok.fast"  -> AVAILABLE_MODELS.grok.fast
          [] k = "grok.image" -> AVAILABLE_MODELS.grok.image]

\* C14 as stated: with an override, selectModel returns a decision whose model id
\* is exactly the supplied value, with reason "user override".
OverrideHonouredVerbatim ==
    \A d \in decision :
        selectIn.forceModel # "" =>
            /\ d.modelId = selectIn.forceModel
            /\ d.reason = "user override"

\* C14 amended: with an override, the decision has reason "user override" and
\* depends on the override alone, not on the classification or the usage counter:
\* it carries the model configured under the override read as a "provider.type"
\* key, and the default gemini flash model when no model is configured under it
\* (a bare model id is such a value).
OverrideResolvedByKey ==
    \A d \in decision :
        selectIn.forceModel # "" =>
            /\ d.reason = "user override"
            /\ d.modelId = IF selectIn.forceModel \in DOMAIN ConfiguredOverrides
                           THEN ConfiguredOverrides[selectIn.forceModel]
                           ELSE AVAILABLE_MODELS.gemini.flash

\* C14 witness: an override naming gemini.pro won over a classification that the
\* category rules send to grok.
OverrideWitness ==
    \E d \in decision :
        /\ d.reason = "user override"
        /\ selectIn.forceModel = "gemini.pro"
        /\ selectIn.analysis.category = "emotional"
        /\ selectIn.analysis.complexity = 0
        /\ d.modelId = AVAILABLE_MODELS.gemini.pro

\* C15: without an override, every classification whose complexity is 3 or more
\* (6 half points) gets the gemini pro model with reason "deep analysis",
\* whatever its category, its score and the usage counter.
DeepAnalysisAtComplexityThree ==
    \A d \in decision :
        (selectIn.forceModel = "" /\ selectIn.analysis.complexity >= 6) =>
            /\ d.modelId = AVAILABLE_MODELS.gemini.pro
            /\ d.provider = "gemini"
            /\ d.reason = "deep analysis"

\* C15 witness: a classification of complexity exactly 3 in a category that the
\* category rules send to grok, taken while grok is below its target share, got
\* the gemini pro model.
DeepAnalysisWitness ==
    /\ selectIn.forceModel = ""
    /\ selectIn.analysis.complexity = 6
    /\ selectIn.analysis.category = "humor"
    /\ BelowTarget(usageCounter)
    /\ \E d \in decision : d.modelId = AVAILABLE_MODELS.gemini.pro /\ d.reason = "deep analysis"

(***************************************************************************)
(* analyzeMessage and route as functions of the message                    *)
(***************************************************************************)
\* bound of the model: keywords of one category in a message
MaxKeywords == 3

\* message.length values on both sides of the two length thresholds
TextLengths == {20, 100, 101, 350}

\* keyword matches of a message: none, one category once or (for the two categories
\* with a complexity bonus) several times, two categories once each, and a message
\* that scores high in three categories
KeywordProfiles ==
    {ZeroHits}
    \cup {Hit(c, 1) : c \in CategorySet}
    \cup {Hit(c, n) : c \in {"reasoning", "health"}, n \in 2..MaxKeywords}
    \cup {[ZeroHits EXCEPT ![c1] = 1, ![c2] = 1] :
            c1 \in {"reasoning", "health", "emotional"}, c2 \in {"humor", "writing"}}
    \cup {[ZeroHits EXCEPT !["reasoning"] = 3, !["health"] = 2, !["writing"] = 2]}

\* pattern matches of a message
PatternProfiles == {ZeroHits, Hit("emotional", 1), Hit("casual", 1)}

\* the messages classified: the empty string, and texts of each length and profile
\* (the longest texts carry one question mark, the 101-character texts two)
ClassifyTexts ==
    {EmptyText}
    \cup {MkText(len, IF len = 350 THEN 1 ELSE IF len = 101 THEN 2 ELSE 0, kw, pat) :
            len \in TextLengths, kw \in KeywordProfiles, pat \in PatternProfiles}

Messages == {NullMessage} \cup {Message(t) : t \in ClassifyTexts}

\* messages of other callers, classified in between
OtherTexts == {MkText(20, 0, Hit("emotional", 1), ZeroHits), MkText(350, 1, Hit("reasoning", 3), ZeroHits)}

\* the value an analyzeMessage call has when it raised
NoAnalysis ==
    [category |-> "none", score |-> 0, allScores |-> ZeroHits, complexity |-> 0,
     messageLength |-> 0, hasQuestion |-> FALSE, hasMultipleQuestions |-> FALSE]

\* the outcome of analyzeMessage(message), with the number of decisions counted when
\* the call was made: message.toLowerCase() raises a TypeError on null and undefined,
\* before anything else is done
Classify(m) ==
    IF m.null
    THEN [of |-> m, at |-> usageCounter.total, threw |-> TRUE, value |-> NoAnalysis]
    ELSE [of |-> m, at |-> usageCounter.total, threw |-> FALSE, value |-> analyzeMessage(m.text)]

InitClassify ==
    /\ messageIn \in Messages
    /\ usageCounter \in CounterSamples
    /\ selectIn = NoSelect
    /\ decision = {}
    /\ routeLog = {}
    /\ lastAnalysis = {}
    /\ firstAnalysis = {}
    /\ InitHistoryIdle
    /\ InitSegmentIdle
    /\ InitCoordIdle
    /\ InitHandlerIdle
    /\ InitCallIdle
    /\ InitReplyIdle

\* a caller's analyzeMessage(messageIn)
ClassifyMessage ==
    /\ lastAnalysis' = {Classify(messageIn)}
    /\ firstAnalysis' = IF firstAnalysis = {} THEN lastAnalysis' ELSE firstAnalysis
    /\ UNCHANGED <<usageCounter, selectIn, decision, routeLog, messageIn>>
    /\ UNCHANGED routerFrame

\* another caller's analyzeMessage(t)
ClassifyOther(t) ==
    /\ Message(t) # messageIn
    /\ lastAnalysis' = {Classify(Message(t))}
    /\ UNCHANGED <<usageCounter, selectIn, decision, routeLog, messageIn, firstAnalysis>>
    /\ UNCHANGED routerFrame

\* route(messageIn, context), once per behaviour (the usage counter it finds is drawn
\* in Init): on null the analyzeMessage call raises, so the promise is rejected: no
\* decision is returned and the usage counter is not updated
RouteMessage(forceModel) ==
    /\ routeLog = {}
    /\ IF messageIn.null
       THEN /\ decision' = {}
            /\ routeLog' = {[before |-> usageCounter, provider |-> "none"]}
            /\ UNCHANGED <<usageCounter, selectIn, messageIn, lastAnalysis, firstAnalysis>>
            /\ UNCHANGED routerFrame
       ELSE route(messageIn.text, forceModel)

NextClassify ==
    \/ ClassifyMessage
    \/ \E t \in OtherTexts : ClassifyOther(t)
    \/ \E f \in RouteForceModels : RouteMessage(f)

SpecClassify == InitClassify /\ [][NextClassify]_vars

\* position of a category in the registry
RegistryIndex(c) == CHOOSE i \in 1..Len(Categories) : Categories[i] = c

\* C16: the category analyzeMessage returns has the maximum accumulated score, and
\* among the categories that share the maximum it is the one registered first.
TopCategoryIsFirstMaximum ==
    \A a \in lastAnalysis :
        ~a.threw =>
            LET scores == Scores(a.of.text)
                top    == a.value.category
            IN  /\ a.value.allScores = scores
                /\ a.value.score = scores[top]
                /\ \A c \in CategorySet :
                     /\ scores[c] <= scores[top]
                     /\ (RegistryIndex(c) < RegistryIndex(top) => scores[c] < scores[top])

\* C16 witness: two categories tied at a positive maximum and the one registered
\* first was returned.
TieBrokenByRegistryWitness ==
    \E a \in lastAnalysis :
        /\ ~a.threw
        /\ a.value.score > 0
        /\ \E c \in CategorySet :
             /\ c # a.value.category
             /\ a.value.allScores[c] = a.value.score
             /\ RegistryIndex(a.value.category) < RegistryIndex(c)

LongReasoning(m) == ~m.null /\ m.text.len = 350 /\ m.text.kw["reasoning"] = 3

\* C18 as stated: a message of length 350 with three distinct reasoning keywords
\* has complexity exactly 5 (10 half points), the cap.
ComplexityFiveAtThreeKeywords ==
    \A a \in lastAnalysis :
        (~a.threw /\ LongReasoning(a.of)) => a.value.complexity = 10

\* C18 amended: such a message has complexity 4.5 (9 half points: 1 + 1 for the
\* length, 0.5 for the one category above 2, 2 for reasoning above 3) when it
\* matches nothing but the three keywords; further matches can only raise it, and
\* never above the cap of 5.
ComplexityNearCapAtThreeKeywords ==
    \A a \in lastAnalysis :
        (~a.threw /\ LongReasoning(a.of)) =>
            /\ a.value.complexity \in 9..10
            /\ (a.of.text.kw = Hit("reasoning", 3) /\ a.of.text.pat = ZeroHits)
                  => a.value.complexity = 9

\* C18 witness: a message of length 350 that matches three reasoning keywords and
\* nothing else was classified, with complexity 4.5.
ComplexityBelowCapWitness ==
    \E a \in lastAnalysis :
        /\ ~a.threw
        /\ LongReasoning(a.of)
        /\ a.of.text.kw = Hit("reasoning", 3)
        /\ a.of.text.pat = ZeroHits
        /\ a.value.category = "reasoning"
        /\ a.value.complexity = 9

\* a message shorter than 100 characters that matches no keyword and no pattern
Quiet(m) == ~m.null /\ m.text.len < 100 /\ m.text.kw = ZeroHits /\ m.text.pat = ZeroHits

\* C19 as stated: a message shorter than 100 characters that matches nothing has
\* complexity 0 and a category no keyword or pattern scored for, and route returns
\* the cheap gemini model for it, whatever the usage counter.
QuietTextGetsDefaultModel ==
    Quiet(messageIn) =>
        /\ \A a \in lastAnalysis :
             a.of = messageIn => (~a.threw /\ a.value.complexity = 0 /\ a.value.score = 0)
        /\ \A d \in decision :
             d.reason # "user override" => d.modelId = AVAILABLE_MODELS.gemini.flash

\* C19 amended: such a message has complexity 0 and the first registered category,
\* reasoning, with score 0, and route decides it by ratio balancing (reason "daily
\* chat"): the cheap gemini model when grok's share of the usage counter is at or
\* above the target or nothing has been counted, and the cheap gemini model or the
\* grok mini model when grok's share is below the target.
QuietTextBalancedByRatio ==
    Quiet(messageIn) =>
        /\ \A a \in lastAnalysis :
             a.of = messageIn =>
                /\ ~a.threw
                /\ a.value.complexity = 0
                /\ a.value.score = 0
                /\ a.value.category = Categories[1]
        /\ \A d \in decision : \A r \in routeLog :
             d.reason # "user override" =>
                /\ d.reason = "daily chat"
                /\ IF BelowTarget(r.before)
                   THEN d.modelId \in {AVAILABLE_MODELS.gemini.flash, AVAILABLE_MODELS.grok.mini}
                   ELSE d.modelId = AVAILABLE_MODELS.gemini.flash

\* C19 witness: a message of 20 characters that matches nothing was classified and
\* routed while grok was below its target share, and route returned grok mini.
QuietTextToGrokWitness ==
    /\ Quiet(messageIn)
    /\ messageIn.text.len = 20
    /\ \E a \in lastAnalysis : a.of = messageIn /\ a.value.complexity = 0
    /\ \E r \in routeLog : BelowTarget(r.before)
    /\ \E d \in decision : d.modelId = AVAILABLE_MODELS.grok.mini /\ d.reason = "daily chat"

\* C20: analyzeMessage and route never fail: for the empty string and for a null or
\* missing message analyzeMessage returns all-zero scores and route returns a
\* decision.
ClassifyAndRouteNeverFail ==
    (messageIn.null \/ messageIn.text = EmptyText) =>
        /\ \A a \in lastAnalysis :
             a.of = messageIn => (~a.threw /\ a.value.allScores = ZeroHits)
        /\ (routeLog # {} => decision # {})

(***************************************************************************)
(* Reply path: handleBongBongMessage, generateResponse and the sends that  *)
(* reply to a message                                                      *)
(***************************************************************************)
\* DualBotService exists in two sources, which differ in the reply path
DualSources == {"dualBotService.js", "part_004"}

\* MODEL_FALLBACK_CHAIN
MODEL_FALLBACK_CHAIN ==
    [k \in {"gemini-2.5-pro", "gemini-2.5-flash", "gemini-2.0-flash",
            "grok-4-fast-non-reasoning", "grok-3-mini", "default"} |->
        CASE k = "gemini-2.5-pro"   -> <<"gemini-2.5-flash", "gemini-2.0-flash", "gemini-2.5-flash-lite">>
          [] k = "gemini-2.5-flash" -> <<"gemini-2.0-flash", "gemini-2.5-flash-lite", "gemini-2.0-flash-exp">>
          [] k = "gemini-2.0-flash" -> <<"gemini-2.5-flash-lite", "gemini-2.0-flash-exp">>
          [] k = "grok-4-fast-non-reasoning" -> <<"grok-3-mini", "gemini-2.5-flash">>
          [] k = "grok-3-mini"      -> <<"grok-4-fast-non-reasoning", "gemini-2.5-flash">>
          [] k = "default"          -> <<"gemini-2.5-flash", "gemini-2.0-flash", "grok-3-mini">>]

\* getFallbackModels(modelId)
getFallbackModels(modelId) ==
    IF modelId \in DOMAIN MODEL_FALLBACK_CHAIN
    THEN MODEL_FALLBACK_CHAIN[modelId]
    ELSE MODEL_FALLBACK_CHAIN["default"]

\* the model ids route returns (the models selectModel names), and their provider
RoutedModels == {"gemini-2.5-flash", "gemini-2.5-pro", "grok-3-mini", "grok-4-fast-non-reasoning"}
ProviderOf(modelId) ==
    IF modelId \in {"grok-3-mini", "grok-4-fast-non-reasoning"} THEN "grok" ELSE "gemini"

\* callGrok: const grokModels = [modelId, 'grok-3-mini', 'grok-4-fast-non-reasoning']
grokModels(modelId) == <<modelId, "grok-3-mini", "grok-4-fast-non-reasoning">>

\* callGrok when every call fails: the models of grokModels in turn; the failure of a
\* model equal to the last entry ends the loop with callGemini('gemini-2.5-flash')
RECURSIVE callGrok(_, _)
callGrok(models, i) ==
    IF i > Len(models) THEN << >>
    ELSE IF models[i] = models[Len(models)] THEN <<models[i], "gemini-2.5-flash">>
    ELSE <<models[i]>> \o callGrok(models, i + 1)

\* a plausible slip: a failed model is retried with the first entry of its own
\* fallback chain, again and again (grok-3-mini and grok-4-fast-non-reasoning name
\* each other); unrolled eight calls deep
generateResponseFirstFallback(modelId) ==
    LET RECURSIVE chained(_, _)
        chained(m, n) ==
            IF n = 0 THEN << >> ELSE <<m>> \o chained(getFallbackModels(m)[1], n - 1)
    IN  chained(modelId, 8)

\* generateResponse when every call fails: the provider's call, then the catch block's
\* callGemini('gemini-2.5-flash', message); after it, 'all models failed' is thrown
generateResponse(modelId) ==
    (IF ProviderOf(modelId) = "gemini" THEN <<modelId>> ELSE callGrok(grokModels(modelId), 1))
    \o <<"gemini-2.5-flash">>

\* messages: ordinary chat text, or text with a keyword that has its own handler
HandledKinds == {"chat", "keyword"}

\* a message sent to the chat: a reply or the catch block's message, which embeds
\* error.message
Reply(modelId) == [kind |-> "reply", detail |-> "none", model |-> modelId]
ErrorNotice(error) == [kind |-> "error", detail |-> error, model |-> "none"]

\* AVATAR_PERSONA.triggers.afterBongBongDelay, in milliseconds
afterBongBongDelay == 2000

InitReply ==
    /\ dualSource \in DualSources
    /\ handling \in [pc : {"start"}, kind : HandledKinds, isGroup : BOOLEAN,
                     avatarBot : BOOLEAN, error : {"none"}]
    /\ routing = "none"
    /\ attempts = << >>
    /\ channel = << >>
    /\ shadowCalls = << >>
    /\ replySend = {}
    /\ InitHistoryIdle
    /\ InitSegmentIdle
    /\ InitRouterIdle
    /\ InitCoordIdle
    /\ InitHandlerIdle
    /\ InitCallIdle

\* control reaches the catch block with this error
Caught(error) == [handling EXCEPT !.pc = "catch", !.error = error]

\* the inbound message is logged (logGroupMessage never throws); a keyword is handed
\* to handleKeywordAction, which returns or throws
Dispatch(ok) ==
    /\ handling.pc = "start"
    /\ handling' = IF handling.kind = "keyword"
                   THEN IF ok THEN [handling EXCEPT !.pc = "done"] ELSE Caught("keyword action failed")
                   ELSE IF ok THEN [handling EXCEPT !.pc = "route"] ELSE Caught("chat action failed")
    /\ UNCHANGED <<dualSource, routing, attempts, channel, shadowCalls, replySend>>
    /\ UNCHANGED replyFrame

\* generateResponse: smartRouter.route picks the model
Route(modelId) ==
    /\ handling.pc = "route"
    /\ routing' = modelId
    /\ handling' = [handling EXCEPT !.pc = "generate"]
    /\ UNCHANGED <<dualSource, attempts, channel, shadowCalls, replySend>>
    /\ UNCHANGED replyFrame

\* generateResponse: the next API call returns (ok) or fails
GenCall(ok) ==
    /\ handling.pc = "generate"
    /\ LET plan == generateResponse(routing)
           n    == Len(attempts) + 1
       IN  /\ attempts' = Append(attempts, plan[n])
           /\ handling' = IF ok THEN [handling EXCEPT !.pc = "send"]
                          ELSE IF n = Len(plan) THEN Caught("all models failed")
                          ELSE handling
    /\ UNCHANGED <<dualSource, routing, channel, shadowCalls, replySend>>
    /\ UNCHANGED replyFrame

\* the reply is sent; then, in a group, it is logged and (dualBotService.js only, and
\* only with the shadow bot present) respondToBongBong is scheduled
SendReply(ok) ==
    /\ handling.pc = "send"
    /\ IF ok
       THEN /\ channel' = Append(channel, Reply(attempts[Len(attempts)]))
            /\ handling' = [handling EXCEPT !.pc = "done"]
            /\ shadowCalls' =
                 IF handling.isGroup /\ dualSource = "dualBotService.js" /\ handling.avatarBot
                 THEN Append(shadowCalls, [delay |-> afterBongBongDelay, context |-> Len(channel')])
                 ELSE shadowCalls
       ELSE /\ handling' = Caught("send failed")
            /\ UNCHANGED <<channel, shadowCalls>>
    /\ UNCHANGED <<dualSource, routing, attempts, replySend>>
    /\ UNCHANGED replyFrame

\* the catch block: sendMessage(chatId, `... ${error.message}`); if this send fails
\* too, the handler's promise is rejected
Apologise(ok) ==
    /\ handling.pc = "catch"
    /\ IF ok
       THEN /\ channel' = Append(channel, ErrorNotice(handling.error))
            /\ handling' = [handling EXCEPT !.pc = "done"]
       ELSE /\ handling' = [handling EXCEPT !.pc = "rejected"]
            /\ UNCHANGED channel
    /\ UNCHANGED <<dualSource, routing, attempts, shadowCalls, replySend>>
    /\ UNCHANGED replyFrame

\* the functions that send with reply_to_message_id, and what sendMessage can answer
ReplyPaths == {"respondToHuman", "respondToBongBong", "handleAvatarSpoke", "decomposeMessage"}
SendResults == {"sent", "message to be replied not found", "other error"}

\* One run of a reply-send path: first is the answer to the send with
\* reply_to_message_id, second the answer to the send that follows a failure, if any.
\*   retried: a second send was made; plain: it had no reply_to_message_id;
\*   sameText: it carried the same text; raised: the function's promise was rejected
replySendPath(path, source, first, second) ==
    LET guarded == \/ path \in {"respondToHuman", "respondToBongBong"}
                   \/ path = "handleAvatarSpoke" /\ source = "part_004"
        gone    == first = "message to be replied not found"
        base    == [path |-> path, source |-> source, first |-> first,
                    retried |-> FALSE, plain |-> FALSE, sameText |-> FALSE,
                    delivered |-> first = "sent", raised |-> FALSE]
    IN  IF first = "sent" THEN base
        ELSE IF guarded
             THEN IF gone
                  THEN [base EXCEPT !.retried = TRUE, !.plain = TRUE, !.sameText = TRUE,
                                    !.delivered = (second = "sent")]
                  ELSE base
        ELSE IF path = "decomposeMessage"
             THEN [base EXCEPT !.retried = TRUE, !.delivered = (second = "sent"),
                               !.raised = (second # "sent")]
        ELSE base

\* a reply-send path runs; a second reply to a message that no longer exists fails
\* like the first
ReplySendRun(path, first, second) ==
    /\ (path = "decomposeMessage" /\ first = "message to be replied not found") => second = first
    /\ replySend' = {replySendPath(path, dualSource, first, second)}
    /\ UNCHANGED <<dualSource, handling, routing, attempts, channel, shadowCalls>>
    /\ UNCHANGED replyFrame

NextReply ==
    \/ \E ok \in BOOLEAN : Dispatch(ok)
    \/ \E m \in RoutedModels : Route(m)
    \/ \E ok \in BOOLEAN : GenCall(ok)
    \/ \E ok \in BOOLEAN : SendReply(ok)
    \/ \E ok \in BOOLEAN : Apologise(ok)
    \/ \E p \in ReplyPaths, first \in SendResults, second \in SendResults : ReplySendRun(p, first, second)

SpecReply == InitReply /\ [][NextReply]_vars

\* C21: after a failed generation call the next calls go to the successive entries of
\* the routed model's fallback chain, in order, and generation is given up only when
\* every entry of the chain has failed.
GenerationFollowsFallbackChain ==
    routing # "none" =>
        LET chain == <<routing>> \o getFallbackModels(routing)
        IN  /\ Len(attempts) <= Len(chain)
            /\ \A i \in 1..Len(attempts) : attempts[i] = chain[i]
            /\ handling.error = "all models failed" => Len(attempts) = Len(chain)

\* the messages of the catch block among those sent to the chat
ErrorNotices == {i \in 1..Len(channel) : channel[i].kind = "error"}

\* C22: when the handling of a message has ended in failure, the chat has received
\* exactly one message about it, and that message carries no text of the error.
ApologyFixedAndSingle ==
    (handling.pc \in {"done", "rejected"} /\ handling.error # "none") =>
        /\ Cardinality(ErrorNotices) = 1
        /\ \A i \in ErrorNotices : channel[i].detail = "none"

\* C23: on every reply-send path of both agents, a send that fails because the
\* message replied to no longer exists is sent again as a new message without
\* reply_to_message_id and with the same text, and the failure is not raised.
ReplyRetriedAsPlainMessage ==
    \A r \in replySend :
        r.first = "message to be replied not found" =>
            /\ r.retried /\ r.plain /\ r.sameText
            /\ ~r.raised

\* the replies of the primary agent among the messages sent to the chat
RepliesSent == {i \in 1..Len(channel) : channel[i].kind = "reply"}

\* C29: for every reply the primary agent has sent to a user message in a group,
\* exactly one call into the shadow agent carrying that reply is scheduled after
\* afterBongBongDelay; none is scheduled in a private chat or without a reply.
\* (Stated for a deployment in which the shadow agent is configured.)
ShadowCallScheduledPerGroupReply ==
    IF handling.isGroup
    THEN /\ \A i \in RepliesSent :
              handling.avatarBot =>
              Cardinality({j \in 1..Len(shadowCalls) : shadowCalls[j].context = i}) = 1
         /\ \A j \in 1..Len(shadowCalls) :
              /\ shadowCalls[j].context \in RepliesSent
              /\ shadowCalls[j].delay = afterBongBongDelay
    ELSE shadowCalls = << >>

\* C24: every inbound message of a group, from a user or from an agent, updates the
\* group's recorded activity time, so that once the shadow agent's handler has dealt
\* with a message the recorded time is not older than that message; this holds also
\* when groupMemoryService could not write the message to its collection.
ActivityRecordedForEveryMessage ==
    inbound.svc = "avatar" => lastGroupActivity[inbound.g] = dateNow

(***************************************************************************)
(* The usage counter and the methods that read it                          *)
(***************************************************************************)
\* (count / total * 100).toFixed(1) + '%', in tenths of a percent; '0%' when total is 0
statsRatio(count, total) ==
    IF total = 0 THEN 0 ELSE (2 * 1000 * count + total) \div (2 * total)

\* getStats()
getStats(counter) ==
    [total  |-> counter.total,
     gemini |-> [count |-> counter.gemini, ratio |-> statsRatio(counter.gemini, counter.total)],
     grok   |-> [count |-> counter.grok, ratio |-> statsRatio(counter.grok, counter.total)]]

\* a caller's getStats()
GetStats ==
    /\ lastStats' = {getStats(usageCounter)}
    /\ UNCHANGED <<usageCounter, selectIn, decision, routeLog, messageIn, lastAnalysis,
                   firstAnalysis, splitIn, splitOut>>
    /\ UNCHANGED callFrame

\* classifications handed to selectModel by a caller other than route
UsageAnalyses ==
    {[category |-> "emotional", score |-> 8, complexity |-> 0],
     [category |-> "reasoning", score |-> 13, complexity |-> 9],
     [category |-> "casual", score |-> 0, complexity |-> 0]}

\* a plausible slip: the usage counter updated where the model is selected
SelectOnlyCounted(analysis, forceModel) ==
    /\ \E d \in selectModel(analysis, forceModel, usageCounter) :
          /\ decision' = {d}
          /\ usageCounter' = updateUsageCounter(usageCounter, d.provider)
    /\ selectIn' = [analysis |-> analysis, forceModel |-> forceModel]
    /\ UNCHANGED <<routeLog, messageIn, lastAnalysis, firstAnalysis>>
    /\ UNCHANGED routerFrame

\* a caller's selectModel(analysis, context), outside route
SelectOnly(analysis, forceModel) ==
    /\ \E d \in selectModel(analysis, forceModel, usageCounter) : decision' = {d}
    /\ selectIn' = [analysis |-> analysis, forceModel |-> forceModel]
    /\ UNCHANGED <<usageCounter, routeLog, messageIn, lastAnalysis, firstAnalysis>>
    /\ UNCHANGED routerFrame

\* route(message, context), once per behaviour (the usage counter it finds is drawn in Init)
RouteOnce(text, forceModel) ==
    /\ routeLog = {}
    /\ route(text, forceModel)

InitUsage ==
    /\ usageCounter \in CounterSamples
    /\ selectIn = NoSelect
    /\ decision = {}
    /\ routeLog = {}
    /\ InitClassifyIdle
    /\ InitHistoryIdle
    /\ InitSegmentIdle
    /\ InitCoordIdle
    /\ InitHandlerIdle
    /\ InitCallIdle
    /\ InitReplyIdle

NextUsage ==
    \/ \E t \in OtherTexts : ClassifyOther(t)
    \/ \E a \in UsageAnalyses, f \in RouteForceModels : SelectOnly(a, f)
    \/ GetStats
    \/ \E t \in RouteTexts, f \in RouteForceModels : RouteOnce(t, f)

SpecUsage == InitUsage /\ [][NextUsage]_vars

\* C28: the usage counter is modified only by route, once its decision is made: a
\* step that changes a counter is a route call that returns a decision and counts
\* that decision's provider, and a call of analyzeMessage, of selectModel or of
\* getStats leaves every counter as it was.
UsageCounterChangedByRouteOnly ==
    [][/\ usageCounter' # usageCounter =>
             /\ routeLog = {} /\ routeLog' # {}
             /\ \E d \in decision' : usageCounter' = updateUsageCounter(usageCounter, d.provider)
       /\ (lastAnalysis' # lastAnalysis \/ selectIn' # selectIn \/ lastStats' # lastStats)
             => usageCounter' = usageCounter]_vars

\* C28 witness: a message was routed and analyzeMessage, selectModel (which chose
\* the other provider) and getStats were called after the route; the counter holds
\* exactly the one decision more than before the route, and getStats reported that
\* total.
UsageCounterFrameWitness ==
    /\ selectIn # NoSelect
    /\ \E r \in routeLog, s \in lastStats, a \in lastAnalysis :
          /\ r.provider # "none"
          /\ usageCounter.total = r.before.total + 1
          /\ s.total = usageCounter.total
          /\ a.at = usageCounter.total
          /\ \A d \in decision : d.provider # r.provider

(***************************************************************************)
(* splitIntoSegments as a function of its argument                         *)
(*                                                                         *)
(* A text is the sequence of its paragraphs, separated by one blank line   *)
(* ("\n\n"); it has no leading or trailing white space.  A paragraph is    *)
(* its length in characters and whether its first line opens a section     *)
(* (a Markdown heading, a bold title line or a line that starts with one   *)
(* of the listed emoji); no other line of it does.                         *)
(***************************************************************************)
\* bound of the model: the number of paragraphs of a text
MaxParagraphs == 3

\* lengths of a paragraph, in characters
ParagraphLengths == {150, 400, 450, 1200}

Paragraphs == [len : ParagraphLengths, heading : BOOLEAN]

SplitTexts == UNION {[1..n -> Paragraphs] : n \in 1..MaxParagraphs}

\* splitIntoSegments returns the text as it is below this length
SingleBelow == 200

\* a lone segment longer than this is split by length
LengthLimit == 1000

\* splitByLength(text, maxLength = 800)
DefaultMaxLength == 800

\* currentLength: the paragraphs' lengths added up
RECURSIVE currentLength(_)
currentLength(paras) ==
    IF paras = << >> THEN 0 ELSE paras[1].len + currentLength(Tail(paras))

\* current.join('\n\n').trim().length
JoinedLength(paras) ==
    IF paras = << >> THEN 0 ELSE currentLength(paras) + 2 * (Len(paras) - 1)

Segment(type, paras) == [type |-> type, paras |-> paras, length |-> JoinedLength(paras)]

\* the loop of splitByLength from paragraph i on
RECURSIVE splitByLengthFrom(_, _, _, _, _)
splitByLengthFrom(paragraphs, i, current, segments, maxLength) ==
    IF i > Len(paragraphs)
    THEN IF Len(current) > 0 THEN Append(segments, Segment("chunk", current)) ELSE segments
    ELSE LET para  == paragraphs[i]
             flush == currentLength(current) + para.len > maxLength /\ Len(current) > 0
         IN  splitByLengthFrom(paragraphs, i + 1,
                               Append(IF flush THEN << >> ELSE current, para),
                               IF flush THEN Append(segments, Segment("chunk", current))
                               ELSE segments,
                               maxLength)

\* splitByLength(text, maxLength)
splitByLength(paragraphs, maxLength) ==
    splitByLengthFrom(paragraphs, 1, << >>, << >>, maxLength)

\* the loop of splitIntoSegments from paragraph i on: a paragraph whose first line
\* opens a section closes the segment collected so far, unless nothing was collected
RECURSIVE sectionsFrom(_, _, _, _)
sectionsFrom(paragraphs, i, currentSegment, segments) ==
    IF i > Len(paragraphs)
    THEN IF Len(currentSegment) > 0 THEN Append(segments, Segment("section", currentSegment))
         ELSE segments
    ELSE LET para   == paragraphs[i]
             isNewSection == para.heading /\ Len(currentSegment) > 0
         IN  sectionsFrom(paragraphs, i + 1,
                          Append(IF isNewSection THEN << >> ELSE currentSegment, para),
                          IF isNewSection THEN Append(segments, Segment("section", currentSegment))
                          ELSE segments)

\* splitIntoSegments(text)
splitIntoSegments(text) ==
    IF JoinedLength(text) < SingleBelow
    THEN <<Segment("single", text)>>
    ELSE LET segments == sectionsFrom(text, 1, << >>, << >>)
         IN  IF Len(segments) = 1 /\ segments[1].length > LengthLimit
             THEN splitByLength(segments[1].paras, DefaultMaxLength)
             ELSE segments

InitSplit ==
    /\ splitIn \in SplitTexts
    /\ splitOut = {}
    /\ lastStats = {}
    /\ InitHistoryIdle
    /\ InitSegmentIdle
    /\ InitRouterIdle
    /\ InitCoordIdle
    /\ InitHandlerIdle
    /\ InitReplyIdle

\* a caller's splitIntoSegments(splitIn)
Split ==
    /\ splitOut = {}
    /\ splitOut' = {splitIntoSegments(splitIn)}
    /\ UNCHANGED <<lastStats, splitIn>>
    /\ UNCHANGED routerVars
    /\ UNCHANGED callFrame

NextSplit == Split

SpecSplit == InitSplit /\ [][NextSplit]_vars

\* the text has no line that opens a section
NoBoundaries(text) == \A i \in 1..Len(text) : ~text[i].heading

\* C30: a text without structural boundaries that is longer than the size threshold
\* is split into chunks of whole paragraphs, none of them longer than the maximum
\* chunk size.
ChunksWithinMaxLength ==
    \A out \in splitOut :
        (NoBoundaries(splitIn) /\ JoinedLength(splitIn) > LengthLimit) =>
            \A k \in 1..Len(out) :
                /\ out[k].type = "chunk"
                /\ out[k].length <= DefaultMaxLength

\* the steps of one handleBongBongMessage call
HandlingStep ==
    \/ \E ok \in BOOLEAN : Dispatch(ok)
    \/ \E m \in RoutedModels : Route(m)
    \/ \E ok \in BOOLEAN : GenCall(ok)
    \/ \E ok \in BOOLEAN : SendReply(ok)
    \/ \E ok \in BOOLEAN : Apologise(ok)

\* every call the handler awaits settles: it returns or it fails
FairSpecReply == SpecReply /\ WF_vars(HandlingStep)

\* C38: handling one message makes a bounded number of generation attempts (at most
\* three calls of grok models and two of gemini-2.5-flash, or two gemini calls) and
\* ends with one response or with one final error, never with both; the handler
\* always comes to an end.
GenerationAttemptsBounded ==
    /\ [](/\ Len(attempts) <= 5
          /\ Cardinality({i \in 1..Len(attempts) : ProviderOf(attempts[i]) = "grok"}) <= 3
          /\ Cardinality(RepliesSent) <= 1
          /\ (RepliesSent # {} => handling.error # "all models failed")
          /\ (handling.error = "all models failed" => attempts # << >>))
    /\ <>(handling.pc \in {"done", "rejected"})

\* C38 witness: grok-3-mini was routed and all five calls failed (grok-3-mini twice,
\* grok-4-fast-non-reasoning, gemini-2.5-flash twice); the handler ended with the one
\* error and without a reply.
GenerationExhaustedWitness ==
    /\ routing = "grok-3-mini"
    /\ attempts = <<"grok-3-mini", "grok-3-mini", "grok-4-fast-non-reasoning",
                    "gemini-2.5-flash", "gemini-2.5-flash">>
    /\ handling.pc = "done"
    /\ handling.error = "all models failed"
    /\ RepliesSent = {}
    /\ Cardinality(ErrorNotices) = 1

(***************************************************************************)
(* Private chats: handleBongBongMessage and the in-memory history          *)
(*                                                                         *)
(* Several messages are handled at once: each handler runs until its next  *)
(* await (the history is read, then the reply is generated, then sent) and *)
(* the others may run in between.                                          *)
(***************************************************************************)
\* private messages in flight, and who sent them
PrivateMessages == {"m1", "m2", "m3"}
UserOf(m) == IF m = "m3" THEN "u2" ELSE "u1"

\* { role, content } as handleBongBongMessage builds it
PrivateTurn(role, m) == [role |-> role, content |-> m]

\* earlier exchanges of a user: nine pairs, so that the next pairs reach the cap
EarlierTurns ==
    [i \in 1..(MaxHistory - 2) |->
        PrivateTurn(IF i % 2 = 1 THEN "user" ELSE "assistant", "earlier")]

\* a plausible slip: the user's turn is put into the history when the message arrives
PrivateReceiveRecorded(m) ==
    /\ m \notin DOMAIN privateCalls
    /\ privateCalls' = [k \in DOMAIN privateCalls \cup {m} |->
                           IF k = m THEN "generating" ELSE privateCalls[k]]
    /\ conversationHistory' =
          [u \in DOMAIN conversationHistory \cup {UserOf(m)} |->
              IF u = UserOf(m)
              THEN AddToHistoryOp(getHistory(u), PrivateTurn("user", m))
              ELSE conversationHistory[u]]
    /\ UNCHANGED appendCount
    /\ UNCHANGED handlerFrame
    /\ UNCHANGED privateCallsFrame

\* the handler is entered: text is read, getHistory(userId) is passed to generateResponse
PrivateReceive(m) ==
    /\ m \notin DOMAIN privateCalls
    /\ privateCalls' = [k \in DOMAIN privateCalls \cup {m} |->
                           IF k = m THEN "generating" ELSE privateCalls[k]]
    /\ UNCHANGED histVars
    /\ UNCHANGED handlerFrame
    /\ UNCHANGED privateCallsFrame

\* generateResponse settles: with a result, or it throws and the catch block answers
PrivateGenerated(m, ok) ==
    /\ m \in DOMAIN privateCalls /\ privateCalls[m] = "generating"
    /\ privateCalls' = [privateCalls EXCEPT ![m] = IF ok THEN "sending" ELSE "failed"]
    /\ UNCHANGED histVars
    /\ UNCHANGED handlerFrame
    /\ UNCHANGED privateCallsFrame

\* sendMessage settles: after a successful send the two addToHistory calls run one
\* after the other without an await; a failed send goes to the catch block
PrivateSent(m, ok) ==
    /\ m \in DOMAIN privateCalls /\ privateCalls[m] = "sending"
    /\ privateCalls' = [privateCalls EXCEPT ![m] = IF ok THEN "done" ELSE "failed"]
    /\ conversationHistory' =
          IF ok
          THEN [u \in DOMAIN conversationHistory \cup {UserOf(m)} |->
                   IF u = UserOf(m)
                   THEN AddToHistoryOp(AddToHistoryOp(getHistory(u), PrivateTurn("user", m)),
                                       PrivateTurn("assistant", m))
                   ELSE conversationHistory[u]]
          ELSE conversationHistory
    /\ UNCHANGED appendCount
    /\ UNCHANGED handlerFrame
    /\ UNCHANGED privateCallsFrame

InitPrivate ==
    /\ privateCalls = << >>
    /\ InitPrivateIdleRest
    /\ \E withEarlier \in SUBSET Users :
          conversationHistory = [u \in withEarlier |-> EarlierTurns]
    /\ appendCount = << >>
    /\ InitSegmentIdle
    /\ InitRouterIdle
    /\ InitCoordIdle
    /\ InitCallIdle
    /\ InitReplyIdle

NextPrivate ==
    \/ \E m \in PrivateMessages : PrivateReceive(m)
    \/ \E m \in PrivateMessages, ok \in BOOLEAN : PrivateGenerated(m, ok)
    \/ \E m \in PrivateMessages, ok \in BOOLEAN : PrivateSent(m, ok)

SpecPrivate == InitPrivate /\ [][NextPrivate]_vars

\* the positions of a message's turns in its user's history
TurnsOf(m) ==
    {i \in 1..Len(getHistory(UserOf(m))) : getHistory(UserOf(m))[i].content = m}

\* C33: in a private chat the history changes only when a reply has been generated
\* and sent, by the user's turn followed at once by the assistant's turn; a message
\* whose handling failed or is not over has no turn in the history, and the pairs of
\* messages handled at the same time do not interleave.
HistoryAppendedInPairs ==
    /\ [](\A m \in PrivateMessages :
            LET h == getHistory(UserOf(m))
            IN  IF m \in DOMAIN privateCalls /\ privateCalls[m] = "done"
                THEN \E i \in 1..(Len(h) - 1) :
                        /\ TurnsOf(m) = {i, i + 1}
                        /\ h[i] = PrivateTurn("user", m)
                        /\ h[i + 1] = PrivateTurn("assistant", m)
                ELSE TurnsOf(m) = {})
    /\ [][conversationHistory' # conversationHistory =>
            \E m \in DOMAIN privateCalls :
                /\ privateCalls[m] = "sending" /\ privateCalls'[m] = "done"
                /\ \A u \in DOMAIN conversationHistory :
                      u # UserOf(m) => conversationHistory'[u] = conversationHistory[u]]_vars

\* C33 witness: two messages of one user were handled at the same time and the one
\* that came second was answered first; a third message failed; the history is at its
\* cap and holds the two pairs whole, the second message's pair first.
PairsNotInterleavedWitness ==
    /\ DOMAIN privateCalls = PrivateMessages
    /\ privateCalls["m1"] = "done" /\ privateCalls["m2"] = "done" /\ privateCalls["m3"] = "failed"
    /\ LET h == getHistory("u1")
       IN  /\ Len(h) = MaxHistory
           /\ h[MaxHistory - 3] = PrivateTurn("user", "m2")
           /\ h[MaxHistory - 2] = PrivateTurn("assistant", "m2")
           /\ h[MaxHistory - 1] = PrivateTurn("user", "m1")
           /\ h[MaxHistory] = PrivateTurn("assistant", "m1")

(***************************************************************************)
(* Buttons of a cached segment and handleSegmentCallback                   *)
(*                                                                         *)
(* Callback data is the sequence of its parts between '_'; a segment id    *)
(* has the three parts chatId, Date.now() and the random suffix, none of   *)
(* which contains '_'.                                                     *)
(***************************************************************************)
\* who builds the buttons, and the actions handleSegmentCallback knows
ButtonBuilders == {"buildMiniButtons", "handleVisaQuery"}
SegmentActions == {"mom", "me", "copy", "expand"}

\* the buttons a builder attaches: buildMiniButtons has no expand button
ButtonsOf(builder) ==
    IF builder = "buildMiniButtons" THEN {"mom", "me", "copy"} ELSE SegmentActions

\* callback_data of a button: buildMiniButtons writes `seg_save_mom_${segmentId}`,
\* `seg_save_me_${segmentId}` and `seg_copy_${segmentId}`; handleVisaQuery writes
\* `seg_${action}_${segmentId}`
CallbackData(builder, action, segmentId) ==
    IF builder = "buildMiniButtons" /\ action \in {"mom", "me"}
    THEN <<"seg", "save", action>> \o segmentId
    ELSE <<"seg", action>> \o segmentId

\* handleSegmentCallback: parts = data.split('_'); action = parts[1];
\* segmentId = parts.slice(2).join('_')
ParsedAction(parts) == parts[2]
ParsedSegmentId(parts) == SubSeq(parts, 3, Len(parts))

\* getSegment for an id that may not have the form of an id
Cached(cache, segmentId) ==
    Len(segmentId) = 3 /\ segmentId \in DOMAIN cache

\* a button of a cached segment is pressed: handleSegmentCallback parses the data and
\* asks getSegment for the content
PressButton(builder, action, segmentId) ==
    LET parts  == CallbackData(builder, action, segmentId)
        id     == ParsedSegmentId(parts)
        hit    == Cached(segmentCache, id)
        result == IF hit THEN GetResult(segmentCache, id, segNow) ELSE Null
    IN  /\ action \in ButtonsOf(builder)
        /\ pressed' = {[builder |-> builder, action |-> action, segmentId |-> segmentId,
                        at |-> segNow, parsedAction |-> ParsedAction(parts),
                        parsedId |-> id, result |-> result]}
        /\ segmentCache' =
              IF hit /\ IsExpired(segmentCache[id], segNow)
              THEN [i \in DOMAIN segmentCache \ {id} |-> segmentCache[i]]
              ELSE segmentCache
        /\ UNCHANGED <<segNow, putLog, getLog>>
        /\ UNCHANGED <<histVars, routerVars, coordVars, replyVars, callVars>>
        /\ UNCHANGED pressedFrame

InitButtons ==
    /\ pressed = {}
    /\ InitPressedIdleRest
    /\ InitSegmentIdle
    /\ InitHistoryIdle
    /\ InitRouterIdle
    /\ InitCoordIdle
    /\ InitCallIdle
    /\ InitReplyIdle

NextButtons ==
    \/ \E c \in Contents, g \in Chats, r \in Rands : cacheSegment(c, g, r)
    \/ \E b \in ButtonBuilders, a \in SegmentActions, id \in DOMAIN putLog : PressButton(b, a, id)
    \/ SegJumpTtl

SpecButtons == InitButtons /\ [][NextButtons]_vars

\* C34: for every button of a cached segment, handleSegmentCallback recovers from
\* the callback data the id cacheSegment returned and one of the actions mom, me,
\* copy and expand, and while the segment has not expired the press reaches its
\* content.
ButtonRoundTrip ==
    \A p \in pressed :
        /\ p.parsedId = p.segmentId
        /\ p.parsedAction = p.action
        /\ p.parsedAction \in SegmentActions
        /\ (p.at - putLog[p.segmentId].createdAt <= cacheExpiry) =>
              /\ p.result.found
              /\ p.result.content = putLog[p.segmentId].content

\* ---------------------------------------------------------------------------
\* NotionSyncService (src/unnamed/part_003): the buffer of chat messages, the
\* sync to Notion and the compression.  Messages are numbered in the order they
\* are added.  A sync is the triggerSync call from its first await to its return:
\* list is the array it iterates, live says that this array is still
\* this.messageBuffer (so that a push reaches it), phase says which await it is at.
\* ---------------------------------------------------------------------------
MaxMessages == 101
\* how many addMessage calls in all are made while a sync is awaited
MaxOverlap == 3

syncThreshold == 30
compressThreshold == 100

\* what notion.pages.create does to the inserts of one sync: insertToNotion catches
\* the error of a failed insert and returns
InsertOutcomes == {"all", "firstFails"}

Inserted(list, outcome) ==
    IF outcome = "all" THEN {list[i] : i \in 1..Len(list)}
    ELSE {list[i] : i \in 2..Len(list)}

\* a push on this.messageBuffer also reaches every sync still iterating that array
pushed(syncs, m) ==
    [i \in 1..Len(syncs) |->
        IF syncs[i].live THEN [syncs[i] EXCEPT !.list = Append(@, m)] ELSE syncs[i]]

\* this.messageBuffer = [] leaves the old array to the syncs that iterate it
detached(syncs) == [i \in 1..Len(syncs) |-> [syncs[i] EXCEPT !.live = FALSE]]

without(syncs, i) == SubSeq(syncs, 1, i - 1) \o SubSeq(syncs, i + 1, Len(syncs))

\* the second check of addMessage and the start of triggerCompression
compressionCheck(n) ==
    IF n.totalMessages >= compressThreshold
    THEN [n EXCEPT !.compressing = @ + 1, !.compressLog = @ + 1]
    ELSE n

\* addMessage without its first check
addMessageNoSync ==
    LET n == notionSync
        m == n.added + 1
        b == Append(n.messageBuffer, m)
        n1 == [n EXCEPT !.added = m, !.messageBuffer = b, !.totalMessages = @ + 1,
                        !.syncs = pushed(@, m),
                        !.overlap = IF n.syncs = << >> THEN @ ELSE @ + 1]
    IN  /\ n.added < MaxMessages
        /\ n.syncs # << >> => n.overlap < MaxOverlap
        /\ notionSync' = compressionCheck(n1)
        /\ UNCHANGED <<histVars, segVars, routerVars, coordVars, replyVars, callVars>>
        /\ UNCHANGED notionSyncFrame

\* addMessage up to its first await: the push, the count, and either the start of
\* triggerSync (whose return the call then awaits) or the second check at once
addMessage ==
    LET n == notionSync
        m == n.added + 1
        b == Append(n.messageBuffer, m)
        n1 == [n EXCEPT !.added = m, !.messageBuffer = b, !.totalMessages = @ + 1,
                        !.syncs = pushed(@, m),
                        !.overlap = IF n.syncs = << >> THEN @ ELSE @ + 1]
        syncing == Len(b) >= syncThreshold /\ n.databaseId
    IN  /\ n.added < MaxMessages
        /\ n.syncs # << >> => n.overlap < MaxOverlap
        /\ notionSync' =
              IF syncing
              THEN [n1 EXCEPT !.syncs = Append(@, [list |-> b, live |-> TRUE,
                                                   phase |-> "processing"])]
              ELSE compressionCheck(n1)
        /\ UNCHANGED <<histVars, segVars, routerVars, coordVars, replyVars, callVars>>
        /\ UNCHANGED notionSyncFrame

\* processMessagesWithAI returns: a new array when it succeeded, the array it was
\* given when it failed
processMessagesWithAI(i, ok) ==
    LET n == notionSync
    IN  /\ i \in 1..Len(n.syncs)
        /\ n.syncs[i].phase = "processing"
        /\ notionSync' = [n EXCEPT !.syncs[i].phase = "inserting",
                                   !.syncs[i].live = @ /\ ~ok]
        /\ UNCHANGED <<histVars, segVars, routerVars, coordVars, replyVars, callVars>>
        /\ UNCHANGED notionSyncFrame

\* the inserts of triggerSync, the clearing of the buffer, and the rest of the
\* addMessage call that awaited this sync
triggerSync(i, outcome) ==
    LET n == notionSync
        n1 == [n EXCEPT !.inserted = @ \cup Inserted(n.syncs[i].list, outcome),
                        !.messageBuffer = << >>,
                        !.syncs = without(detached(@), i)]
    IN  /\ i \in 1..Len(n.syncs)
        /\ n.syncs[i].phase = "inserting"
        /\ notionSync' = compressionCheck(n1)
        /\ UNCHANGED <<histVars, segVars, routerVars, coordVars, replyVars, callVars>>
        /\ UNCHANGED notionSyncFrame

\* triggerCompression after its awaits: the counter is reset when the summary was
\* generated, and left when generateContent failed
triggerCompression(ok) ==
    LET n == notionSync
    IN  /\ n.compressing > 0
        /\ notionSync' = [n EXCEPT !.compressing = @ - 1,
                                   !.totalMessages = IF ok THEN 0 ELSE @]
        /\ UNCHANGED <<histVars, segVars, routerVars, coordVars, replyVars, callVars>>
        /\ UNCHANGED notionSyncFrame

\* initialize() has returned: the database was verified, or findOrCreateDatabase
\* has set databaseId to null
InitNotion ==
    /\ \E db \in BOOLEAN :
          notionSync = [databaseId |-> db, messageBuffer |-> << >>, totalMessages |-> 0,
                        added |-> 0, syncs |-> << >>, compressing |-> 0,
                        compressLog |-> 0, inserted |-> {}, overlap |-> 0]
    /\ InitNotionIdleRest
    /\ InitSegmentIdle
    /\ InitHistoryIdle
    /\ InitRouterIdle
    /\ InitCoordIdle
    /\ InitCallIdle
    /\ InitReplyIdle

SyncStep ==
    \/ \E i \in 1..Len(notionSync.syncs), ok \in BOOLEAN : processMessagesWithAI(i, ok)
    \/ \E i \in 1..Len(notionSync.syncs), o \in InsertOutcomes : triggerSync(i, o)

CompressionStep == \E ok \in BOOLEAN : triggerCompression(ok)

NextNotion ==
    \/ addMessage
    \/ SyncStep
    \/ CompressionStep

SpecNotion == InitNotion /\ [][NextNotion]_vars

\* the calls to the AI and to Notion return
FairSpecNotion == SpecNotion /\ WF_vars(SyncStep) /\ WF_vars(CompressionStep)

\* the step is an addMessage call that leaves at least syncThreshold messages buffered
BufferBroughtToThreshold ==
    /\ notionSync'.added > notionSync.added
    /\ Len(notionSync'.messageBuffer) >= syncThreshold

\* the step starts a sync of the messages that are buffered after it
SyncOfBufferStarted ==
    /\ Len(notionSync'.syncs) = Len(notionSync.syncs) + 1
    /\ notionSync'.syncs[Len(notionSync'.syncs)].list = notionSync'.messageBuffer

\* C31 as stated: whenever addMessage brings the buffer to 30 entries a sync of the
\* buffered messages runs, and whenever the message count reaches 100 a compression
\* runs.
SyncAndCompressionAtThresholds ==
    /\ [][BufferBroughtToThreshold => SyncOfBufferStarted]_vars
    /\ (notionSync.totalMessages >= compressThreshold) ~> (notionSync.compressLog >= 1)

\* C31: while databaseId is set, whenever addMessage brings the buffer to 30 entries
\* or more a sync of the buffered messages starts in that call; once initialize() has
\* set databaseId to null no sync runs and the buffer only grows.  Whenever the
\* message count reaches 100 a compression runs, after the sync the same call awaits.
SyncWhenConfiguredAndCompression ==
    /\ [][BufferBroughtToThreshold =>
             IF notionSync.databaseId THEN SyncOfBufferStarted
             ELSE notionSync'.syncs = << >> /\ notionSync'.inserted = {}]_vars
    /\ (notionSync.totalMessages >= compressThreshold) ~> (notionSync.compressLog >= 1)

\* a sync has inserted a full buffer and the 100th message has started a compression
SyncedAndCompressedWitness ==
    /\ notionSync.databaseId
    /\ Cardinality(notionSync.inserted) >= syncThreshold
    /\ notionSync.compressLog >= 1
    /\ notionSync.totalMessages = 0

\* C36: every message added to the sync buffer is still in the buffer or has been
\* inserted into Notion.
NoBufferedMessageLost ==
    \A m \in 1..notionSync.added :
        \/ \E i \in 1..Len(notionSync.messageBuffer) : notionSync.messageBuffer[i] = m
        \/ m \in notionSync.inserted

\* ---------------------------------------------------------------------------
\* Pending actions (src/unnamed/part_004): a button registers the action that
\* waits for the user's next input, the message handler hands a text to
\* handleBongBongMessage, and handlePendingAction consumes the action.
\* ---------------------------------------------------------------------------
PendingTypes == {"note_new", "note_search", "visa_ask", "creative_writing",
                 "creative_story", "creative_expand"}

MaxTexts == 3

\* how many texts the message handler has received
TextsReceived == IF lastText = {} THEN 0 ELSE (CHOOSE r \in lastText : TRUE).seq

\* a text is a command when it starts with '/'
TextKinds == {"plain", "command"}

\* handlePendingAction without the delete
handlePendingActionKept(pending, userId) == pending

\* the map after handlePendingAction: the get and the delete come before the first await
handlePendingAction(pending, userId) ==
    [u \in DOMAIN pending \ {userId} |-> pending[u]]

\* handleCallback and the callbacks it hands to: pendingAction.set(userId, ...)
RegisterPending(u, t) ==
    /\ pendingAction' = [v \in DOMAIN pendingAction \cup {u} |->
                             IF v = u THEN t ELSE pendingAction[v]]
    /\ UNCHANGED lastText
    /\ UNCHANGED <<histVars, segVars, routerVars, coordVars, replyVars, callVars>>
    /\ UNCHANGED <<privateCalls, pressed, notionSync, dailyPraise, stopped>>

\* the 'message' handler for a message with text: a command returns at once, any
\* other text goes to handleBongBongMessage, where the pending action, when there is
\* one, takes the text and the chat reply is skipped; ok is whether the handler of the
\* action (or the chat reply) ran without throwing
ReceiveText(u, kind, ok) ==
    LET action == IF u \in DOMAIN pendingAction THEN pendingAction[u] ELSE "none"
        taken  == IF kind = "command" THEN "command"
                  ELSE IF action # "none" THEN "pending" ELSE "chat"
    IN  /\ TextsReceived < MaxTexts
        /\ lastText' = {[seq |-> TextsReceived + 1, user |-> u, kind |-> kind,
                         pending |-> action, route |-> taken, ok |-> ok]}
        /\ pendingAction' = IF kind = "command" THEN pendingAction
                            ELSE handlePendingAction(pendingAction, u)
        /\ UNCHANGED <<histVars, segVars, routerVars, coordVars, replyVars, callVars>>
        /\ UNCHANGED <<privateCalls, pressed, notionSync, dailyPraise, stopped>>

InitPending ==
    /\ pendingAction = << >>
    /\ lastText = {}
    /\ InitPrivateIdle
    /\ InitPressedIdle
    /\ InitNotionIdle
    /\ InitPraiseIdle
    /\ InitStoppedIdle
    /\ InitSegmentIdle
    /\ InitHistoryIdle
    /\ InitRouterIdle
    /\ InitCoordIdle
    /\ InitCallIdle
    /\ InitReplyIdle

NextPending ==
    \/ \E u \in Users, t \in PendingTypes : RegisterPending(u, t)
    \/ \E u \in Users, k \in TextKinds, ok \in BOOLEAN : ReceiveText(u, k, ok)

SpecPending == InitPending /\ [][NextPending]_vars

\* the step is the receipt of a text of one of these kinds from u while an action
\* is pending for u
TextWhilePending(u, kinds) ==
    /\ u \in DOMAIN pendingAction
    /\ lastText' # lastText
    /\ \E r \in lastText' : r.user = u /\ r.kind \in kinds

\* the pending action took the text, the chat reply did not, and nothing is pending
ConsumedOnce(u) ==
    /\ \A r \in lastText' : r.route = "pending"
    /\ u \notin DOMAIN pendingAction'

\* C35 as stated: a pending action is consumed by exactly the next text message
\* from its user, whatever the text, handled by the action and not as chat, and
\* nothing is pending afterwards even if the handler fails.
PendingConsumedByNextText ==
    [][\A u \in Users : TextWhilePending(u, TextKinds) => ConsumedOnce(u)]_vars

\* C35: a pending action is consumed by exactly the next text message from its user
\* that is not a command (does not start with '/'): that text is handled by the
\* action and not as chat, and nothing is pending afterwards even if the handler
\* fails; a command leaves the action pending.
PendingConsumedByNextPlainText ==
    [][\A u \in Users :
          /\ TextWhilePending(u, {"plain"}) => ConsumedOnce(u)
          /\ TextWhilePending(u, {"command"}) =>
                /\ \A r \in lastText' : r.route = "command"
                /\ pendingAction' = pendingAction]_vars

\* the handler of a pending action has failed and nothing is pending for the user
PendingHandlerFailedWitness ==
    \E r \in lastText :
        /\ r.kind = "plain" /\ r.route = "pending" /\ ~r.ok
        /\ r.user \notin DOMAIN pendingAction

\* ---------------------------------------------------------------------------
\* Daily praise (avatarService.js triggerDailyPraise, called for every active
\* group by checkDailyPraise every hour).  today is the calendar day, calls are
\* the invocations that are awaiting something, sent is the list of the praises
\* that reached a group, each with the day it was sent on.
\* ---------------------------------------------------------------------------
MaxPraiseCalls == 3
MaxDays == 2

\* dailyPraiseTriggered.get(groupId) === today
praisedToday(p, g) == g \in DOMAIN p.triggered /\ p.triggered[g] = p.today

dropCall(calls, i) == SubSeq(calls, 1, i - 1) \o SubSeq(calls, i + 1, Len(calls))

\* triggerDailyPraise up to its first await: the check of the day, then the call
\* of generateAvatarResponse
triggerDailyPraise(g) ==
    LET p == dailyPraise
    IN  /\ p.invoked < MaxPraiseCalls
        /\ dailyPraise' =
              IF praisedToday(p, g) THEN [p EXCEPT !.invoked = @ + 1]
              ELSE [p EXCEPT !.invoked = @ + 1,
                             !.calls = Append(@, [g |-> g, today |-> p.today,
                                                  pc |-> "generating"])]
        /\ UNCHANGED <<histVars, segVars, routerVars, coordVars, replyVars, callVars>>
        /\ UNCHANGED dailyPraiseFrame

\* generateAvatarResponse returns a message, or returns nothing or throws
PraiseGenerated(i, ok) ==
    LET p == dailyPraise
    IN  /\ i \in 1..Len(p.calls)
        /\ p.calls[i].pc = "generating"
        /\ dailyPraise' = IF ok THEN [p EXCEPT !.calls[i].pc = "sending"]
                          ELSE [p EXCEPT !.calls = dropCall(@, i)]
        /\ UNCHANGED <<histVars, segVars, routerVars, coordVars, replyVars, callVars>>
        /\ UNCHANGED dailyPraiseFrame

\* bot.sendMessage returns or throws
PraiseSent(i, ok) ==
    LET p == dailyPraise
    IN  /\ i \in 1..Len(p.calls)
        /\ p.calls[i].pc = "sending"
        /\ dailyPraise' =
              IF ok THEN [p EXCEPT !.calls[i].pc = "logging",
                                   !.sent = Append(@, [g |-> p.calls[i].g, day |-> p.today])]
              ELSE [p EXCEPT !.calls = dropCall(@, i)]
        /\ UNCHANGED <<histVars, segVars, routerVars, coordVars, replyVars, callVars>>
        /\ UNCHANGED dailyPraiseFrame

\* logGroupMessage returns (it catches its errors), and the day the call began on
\* is recorded for the group
PraiseLogged(i) ==
    LET p == dailyPraise
        c == p.calls[i]
    IN  /\ i \in 1..Len(p.calls)
        /\ c.pc = "logging"
        /\ dailyPraise' =
              [p EXCEPT !.triggered = [h \in DOMAIN p.triggered \cup {c.g} |->
                                          IF h = c.g THEN c.today ELSE p.triggered[h]],
                        !.calls = dropCall(@, i)]
        /\ UNCHANGED <<histVars, segVars, routerVars, coordVars, replyVars, callVars>>
        /\ UNCHANGED dailyPraiseFrame

\* midnight
NextDay ==
    /\ dailyPraise.today < MaxDays
    /\ dailyPraise' = [dailyPraise EXCEPT !.today = @ + 1]
    /\ UNCHANGED <<histVars, segVars, routerVars, coordVars, replyVars, callVars>>
    /\ UNCHANGED dailyPraiseFrame

InitPraise ==
    /\ dailyPraise = [triggered |-> << >>, calls |-> << >>, today |-> 1, invoked |-> 0,
                      sent |-> << >>]
    /\ InitPraiseIdleRest
    /\ InitSegmentIdle
    /\ InitHistoryIdle
    /\ InitRouterIdle
    /\ InitCoordIdle
    /\ InitCallIdle
    /\ InitReplyIdle

NextPraise ==
    \/ \E g \in Groups : triggerDailyPraise(g)
    \/ \E i \in 1..Len(dailyPraise.calls), ok \in BOOLEAN : PraiseGenerated(i, ok)
    \/ \E i \in 1..Len(dailyPraise.calls), ok \in BOOLEAN : PraiseSent(i, ok)
    \/ \E i \in 1..Len(dailyPraise.calls) : PraiseLogged(i)
    \/ NextDay

SpecPraise == InitPraise /\ [][NextPraise]_vars

\* C37: no group is sent more than one daily praise on one calendar day, also when
\* triggerDailyPraise is invoked while an earlier invocation is awaiting.
OnePraisePerGroupPerDay ==
    \A i \in 1..Len(dailyPraise.sent), j \in 1..Len(dailyPraise.sent) :
        (dailyPraise.sent[i] = dailyPraise.sent[j]) => i = j

(***************************************************************************)
(* Dual-agent coordinator.                                                 *)
(*                                                                         *)
(* Two bots poll the same group: the primary agent (dualBotService) and    *)
(* the shadow agent (avatarService).  Each has its own 'message' handler   *)
(* and its own idle timer map.  A handler runs until its next await; the   *)
(* event loop may run any due timer or resume any other handler in         *)
(* between.  The clock counts minutes and advances in steps of a quarter   *)
(* of an hour.  Delays of a few seconds are below its resolution: a        *)
(* callback set with such a delay is due at once, and a network or         *)
(* database call settles, in any order with the others, before the clock   *)
(* advances.                                                               *)
(***************************************************************************)

\* the clock stops after this many steps
MaxTicks == 4
\* inbound messages taken by the two handlers together
MaxInbound == 2

\* AVATAR_PERSONA.idleChat.messagesPerTrigger
messagesPerTrigger == 10

\* minMs + Math.random() * (maxMs - minMs), Math.random() in [0, 1)
RandomDelays ==
    {d \in minIdleMinutes..maxIdleMinutes :
        /\ d < maxIdleMinutes
        /\ (d - minIdleMinutes) % TimeStep = 0}

\* msg.text present and not a command / msg.text starting with '/' / no msg.text
MessageKinds == {"text", "command", "other"}

\* clearTimeout(handle): a handle that is not pending (fired, cleared, none) is ignored
clearTimeout(pending, handle) ==
    IF BagIn(handle, pending) THEN pending (-) SetToBag({handle}) ELSE pending

setTimeout(pending, timer) == pending (+) SetToBag({timer})

\* pending idle timers of one coordinator for one group
IdlePending(pending, kind, g) ==
    LET S == {t \in BagToSet(pending) : t.kind = kind /\ t.g = g}
    IN  BagCardinality([t \in S |-> pending[t]])

\* a reset that leaves the previous timer installed
ReplaceTimerKeepOld(pending, handle, timer) == setTimeout(pending, timer)

\* the body of resetIdleTimer (both services): clear the timer the map holds, install the new one
ReplaceTimer(pending, handle, timer) == setTimeout(clearTimeout(pending, handle), timer)

\* what an inbound message did to the receiving coordinator's idle timer
Handled(svc, g, kind, installed, finite, delay, cleared) ==
    [svc |-> svc, g |-> g, kind |-> kind, installed |-> installed, finite |-> finite,
     delay |-> delay, cleared |-> cleared]

\* the message an agent sent: its kind and how many agent messages deep in a reaction
\* chain it is
Sent(g, kind, hops) == [g |-> g, kind |-> kind, hops |-> hops]

\* history: a human's message reached the group while these bursts were running
Interrupt(bs, g, isBot) ==
    IF isBot THEN bs
    ELSE {IF b.g = g THEN [b EXCEPT !.interrupted = TRUE] ELSE b : b \in bs}

\* groupMemoryService.logGroupMessage up to the insert: the record is written and the
\* activity time updated, or the insert throws and nothing is updated
logGroupMessage(g, ok) ==
    lastActivityTime' = IF ok THEN [lastActivityTime EXCEPT ![g] = dateNow] ELSE lastActivityTime

\* avatarService.resetIdleTimer (the later definition, which is the one the class keeps)
resetIdleTimer(g, delay, respond) ==
    LET timer == Timer("idleAvatar", g, dateNow + delay, 0, 0, 0)
        after == ReplaceTimer(timers, idleChatTimer[g], timer)
    IN  /\ lastGroupActivity' = [lastGroupActivity EXCEPT ![g] = dateNow]
        /\ timers' = IF respond
                     THEN setTimeout(after, Timer("respondToHuman", g, dateNow, 1, 0, 0))
                     ELSE after
        /\ idleChatTimer' = [idleChatTimer EXCEPT ![g] = timer]
        /\ inbound' = Handled("avatar", g, "text", TRUE, TRUE, delay,
                              BagIn(idleChatTimer[g], timers))

\* avatar 'message' handler, up to its first await: a message without text or with a
\* command returns at once, a group's text message is handed to logGroupMessage
AvatarReceive(g, kind, isBot) ==
    /\ inboundCount < MaxInbound
    /\ inboundCount' = inboundCount + 1
    /\ bursts' = Interrupt(bursts, g, isBot)
    /\ IF kind = "text"
       THEN LET h == [svc |-> "avatar", g |-> g, isBot |-> isBot]
            IN  /\ h \notin handlers
                /\ handlers' = handlers \cup {h}
                /\ UNCHANGED inbound
       ELSE /\ inbound' = Handled("avatar", g, kind, FALSE, FALSE, 0, FALSE)
            /\ UNCHANGED handlers
    /\ UNCHANGED <<lastSent, dateNow, timers, idleChatTimer, lastGroupActivity, lastIdleChat, idleTimers,
                   lastActivityTime, burstLog, dualIdle>>
    /\ UNCHANGED coordFrame

\* logGroupMessage settles and the avatar handler goes on: resetIdleTimer, then for a
\* human's message that asks for it (decompose, reply to Zhouwen) a delayed reply
AvatarResume(h, ok) ==
    /\ h \in handlers /\ h.svc = "avatar"
    /\ logGroupMessage(h.g, ok)
    /\ \E delay \in RandomDelays, respond \in BOOLEAN :
          /\ respond => ~h.isBot
          /\ resetIdleTimer(h.g, delay, respond)
    /\ handlers' = handlers \ {h}
    /\ UNCHANGED <<lastSent, dateNow, lastIdleChat, idleTimers, bursts, burstLog, dualIdle,
                   inboundCount>>
    /\ UNCHANGED coordFrame

\* a timer the event loop may run now
Due(t) == BagIn(t, timers) /\ t.due <= dateNow

\* an agent sends a message and logs it to the group memory; the send or the log may fail
SendOutcomes == {"logged", "unlogged", "unsent"}

\* avatarService.triggerIdleChatV2 up to its first await (sending the opener)
triggerIdleChatV2(g) ==
    LET lastActivity == lastGroupActivity[g]
        idleMs == dateNow - lastActivity
        b == [g |-> g, startedAt |-> dateNow, i |-> 0, pc |-> "opener", interrupted |-> FALSE,
              late |-> FALSE, idleFor |-> idleMs,
              gap |-> IF burstLog[g] = 0 THEN -1 ELSE dateNow - burstLog[g],
              raced |-> \E h \in handlers : h.svc = "avatar" /\ h.g = g /\ ~h.isBot]
    IN  IF idleMs < minIdleMinutes
        THEN UNCHANGED <<bursts, burstLog>>
        ELSE /\ bursts' = bursts \cup {b}
             /\ burstLog' = [burstLog EXCEPT ![g] = dateNow]

\* the avatar's idle timer fires
AvatarIdleTimerFire(t) ==
    /\ Due(t) /\ t.kind = "idleAvatar"
    /\ timers' = timers (-) SetToBag({t})
    /\ triggerIdleChatV2(t.g)
    /\ UNCHANGED <<lastSent, dateNow, idleChatTimer, lastGroupActivity, lastIdleChat, idleTimers,
                   lastActivityTime, handlers, inbound, dualIdle, inboundCount>>
    /\ UNCHANGED coordFrame

\* the opener's sendMessage settles; a failure ends the burst in its catch
BurstOpenerSent(b, ok) ==
    /\ b \in bursts /\ b.pc = "opener"
    /\ bursts' = IF ok THEN (bursts \ {b}) \cup {[b EXCEPT !.pc = "sleep"]} ELSE bursts \ {b}
    /\ lastSent' = IF ok THEN Sent(b.g, "opener", 1) ELSE lastSent
    /\ UNCHANGED <<dateNow, timers, idleChatTimer, lastGroupActivity, lastIdleChat, idleTimers,
                   lastActivityTime, handlers, inbound, burstLog, dualIdle, inboundCount>>
    /\ UNCHANGED coordFrame

\* sleep(messageInterval) is over: the burst starts generating its next turn.  The
\* counter-reply the previous turn may have set was set before the sleep began and with a
\* shorter delay (2000 ms against messageInterval = 3000 ms), so it has run by now.
BurstSleepDone(b) ==
    /\ b \in bursts /\ b.pc = "sleep"
    /\ \A t \in BagToSet(timers) : ~(t.kind = "counter" /\ t.g = b.g /\ t.burst = b.startedAt)
    /\ bursts' = (bursts \ {b}) \cup {[b EXCEPT !.pc = "gen", !.late = b.late \/ b.interrupted]}
    /\ UNCHANGED <<lastSent, dateNow, timers, idleChatTimer, lastGroupActivity, lastIdleChat, idleTimers,
                   lastActivityTime, handlers, inbound, burstLog, dualIdle, inboundCount>>
    /\ UNCHANGED coordFrame

\* bongbongService.shouldCounterAttack: Math.random() < bongbongCounterRate
CounterChoices == BOOLEAN

\* a handleAvatarSpoke whose counter-reply is passed back to the shadow agent
handleAvatarSpokeAgain(pending, g, burst, turn, shouldRespond) ==
    IF shouldRespond
    THEN setTimeout(setTimeout(pending, Timer("counter", g, dateNow, 2, burst, turn)),
                    Timer("respondToBongBong", g, dateNow, 3, burst, turn))
    ELSE pending

\* dualBotService.handleAvatarSpoke: the primary agent may set one callback that sends a
\* counter-reply to the shadow agent's message
handleAvatarSpoke(pending, g, burst, turn, shouldRespond) ==
    IF shouldRespond
    THEN setTimeout(pending, Timer("counter", g, dateNow, 2, burst, turn))
    ELSE pending

\* generateIdleChatMessage settles (it answers with a stock line when the model fails),
\* then the turn is sent and logged, and on every third turn the primary agent is told
BurstTurn(b, outcome, shouldRespond) ==
    /\ b \in bursts /\ b.pc = "gen"
    /\ lastSent' = IF outcome = "unsent" THEN lastSent ELSE Sent(b.g, "turn", 1)
    /\ logGroupMessage(b.g, outcome = "logged")
    /\ timers' = IF outcome # "unsent" /\ b.i % 3 = 0
                 THEN handleAvatarSpoke(timers, b.g, b.startedAt, b.i, shouldRespond)
                 ELSE timers
    /\ IF outcome = "unsent"
       THEN /\ bursts' = bursts \ {b}
            /\ UNCHANGED lastIdleChat
       ELSE IF b.i + 1 < messagesPerTrigger
       THEN /\ bursts' = (bursts \ {b}) \cup {[b EXCEPT !.pc = "sleep", !.i = b.i + 1]}
            /\ UNCHANGED lastIdleChat
       ELSE /\ bursts' = bursts \ {b}
            /\ lastIdleChat' = [lastIdleChat EXCEPT ![b.g] = dateNow]
    /\ UNCHANGED <<dateNow, idleChatTimer, lastGroupActivity, idleTimers, handlers, inbound,
                   burstLog, dualIdle, inboundCount>>
    /\ UNCHANGED coordFrame

\* the callbacks that send one message and schedule nothing more: the counter-reply of
\* handleAvatarSpoke, respondToHuman, and respondToBongBong (whose second timeout of
\* afterBongBongDelay is counted into the first)
ReplyKinds == {"counter", "respondToHuman", "respondToBongBong"}

ReplyFire(t, outcome) ==
    /\ Due(t) /\ t.kind \in ReplyKinds
    /\ timers' = timers (-) SetToBag({t})
    /\ lastSent' = IF outcome = "unsent" THEN lastSent ELSE Sent(t.g, t.kind, t.hops)
    /\ logGroupMessage(t.g, outcome = "logged")
    /\ UNCHANGED <<dateNow, idleChatTimer, lastGroupActivity, lastIdleChat, idleTimers,
                   handlers, bursts, inbound, burstLog, dualIdle, inboundCount>>
    /\ UNCHANGED coordFrame

\* the keys of AVATAR_PERSONA.triggers
TriggerKeys == {"afterBongBongDelay", "responseToHumanRate", "bongbongCounterRate",
                "dailyPraiseEnabled"}

\* AVATAR_PERSONA.triggers.idleTriggerMinutes * 60 * 1000: the key is not configured, the
\* product is NaN, and setTimeout runs a callback with a NaN delay after 1 ms
idleTriggerDefined == "idleTriggerMinutes" \in TriggerKeys

\* round < AVATAR_PERSONA.triggers.idleChatRounds: the key is not configured and no
\* number is less than undefined, so the loop body never runs
idleChatRoundsDefined == "idleChatRounds" \in TriggerKeys

\* isGroupIdle's default idleMinutes, used when the caller passes undefined
DefaultIdleMinutes == 60

\* groupMemoryService.isGroupIdle
isGroupIdle(g, idleMinutes) ==
    LET lastActivity == lastActivityTime[g]
    IN  IF lastActivity = 0 THEN TRUE
        ELSE dateNow - lastActivity > idleMinutes

\* dualBotService.resetIdleTimer
dualResetIdleTimer(g, kind) ==
    LET timer == Timer("idleDual", g, dateNow, 0, 0, 0)
    IN  /\ timers' = ReplaceTimer(timers, idleTimers[g], timer)
        /\ idleTimers' = [idleTimers EXCEPT ![g] = timer]
        /\ inbound' = Handled("dual", g, kind, TRUE, idleTriggerDefined, 0,
                              BagIn(idleTimers[g], timers))

\* dualBotService 'message' handler, up to its first await
DualReceive(g, kind) ==
    /\ inboundCount < MaxInbound
    /\ inboundCount' = inboundCount + 1
    /\ bursts' = Interrupt(bursts, g, FALSE)
    /\ IF kind = "command"
       THEN /\ inbound' = Handled("dual", g, kind, FALSE, FALSE, 0, FALSE)
            /\ UNCHANGED <<timers, idleTimers, handlers>>
       ELSE /\ dualResetIdleTimer(g, kind)
            /\ IF kind = "text"
               THEN LET h == [svc |-> "dual", g |-> g, isBot |-> FALSE]
                    IN  /\ h \notin handlers
                        /\ handlers' = handlers \cup {h}
               ELSE UNCHANGED handlers
    /\ UNCHANGED <<lastSent, dateNow, idleChatTimer, lastGroupActivity, lastIdleChat, lastActivityTime,
                   burstLog, dualIdle>>
    /\ UNCHANGED coordFrame

\* handleBongBongMessage settles.  The user's message is logged; a keyword, news or draw
\* request is then handed to its own handler; anything else is answered: the reply is
\* generated, sent and logged, and the shadow agent is given afterBongBongDelay to
\* interject.  A failure on the way is answered from the catch block with an error message.
DualOutcomes == {"handled", "failed", "replied"}
DualReplied(h, ok, outcome) ==
    /\ h \in handlers /\ h.svc = "dual"
    /\ handlers' = handlers \ {h}
    /\ logGroupMessage(h.g, ok)
    /\ lastSent' = CASE outcome = "replied" -> Sent(h.g, "reply", 1)
                     [] outcome = "failed"  -> Sent(h.g, "error", 1)
                     [] OTHER               -> lastSent
    /\ timers' = IF outcome = "replied"
                 THEN setTimeout(timers, Timer("respondToBongBong", h.g, dateNow, 2, 0, 0))
                 ELSE timers
    /\ UNCHANGED <<dateNow, idleChatTimer, lastGroupActivity, lastIdleChat, idleTimers,
                   bursts, inbound, burstLog, dualIdle, inboundCount>>
    /\ UNCHANGED coordFrame

\* dualBotService.triggerIdleChat: the idleness check, then a loop of idleChatRounds rounds
triggerIdleChat(g) ==
    dualIdle' = [dualIdle EXCEPT ![g] = IF isGroupIdle(g, DefaultIdleMinutes) THEN "idle" ELSE "busy"]

\* the primary agent's idle timer fires
DualIdleTimerFire(t) ==
    /\ Due(t) /\ t.kind = "idleDual"
    /\ ~idleChatRoundsDefined
    /\ timers' = timers (-) SetToBag({t})
    /\ triggerIdleChat(t.g)
    /\ UNCHANGED <<lastSent, dateNow, idleChatTimer, lastGroupActivity, lastIdleChat, idleTimers,
                   lastActivityTime, handlers, bursts, inbound, burstLog, inboundCount>>
    /\ UNCHANGED coordFrame

\* time passes: every callback that is due has run and every pending call has settled
Tick ==
    /\ dateNow < StartTime + MaxTicks * TimeStep
    /\ \A t \in BagToSet(timers) : t.due > dateNow
    /\ bursts = {}
    /\ handlers = {}
    /\ dateNow' = dateNow + TimeStep
    /\ inbound' = NoInbound
    /\ lastSent' = NoSent
    /\ dualIdle' = [g \in Groups |-> "none"]
    /\ UNCHANGED <<timers, idleChatTimer, lastGroupActivity, lastIdleChat, idleTimers,
                   lastActivityTime, handlers, bursts, burstLog, inboundCount>>
    /\ UNCHANGED coordFrame

Init ==
    /\ InitCoordIdle
    /\ InitHandlerIdle
    /\ InitCallIdle
    /\ InitReplyIdle
    /\ InitHistoryIdle
    /\ InitSegmentIdle
    /\ InitRouterIdle

Next ==
    \/ \E g \in Groups, kind \in MessageKinds, isBot \in BOOLEAN : AvatarReceive(g, kind, isBot)
    \/ \E h \in handlers, ok \in BOOLEAN : AvatarResume(h, ok)
    \/ \E t \in BagToSet(timers) : AvatarIdleTimerFire(t)
    \/ \E b \in bursts, ok \in BOOLEAN : BurstOpenerSent(b, ok)
    \/ \E b \in bursts : BurstSleepDone(b)
    \/ \E b \in bursts, outcome \in SendOutcomes, c \in CounterChoices : BurstTurn(b, outcome, c)
    \/ \E t \in BagToSet(timers), outcome \in SendOutcomes : ReplyFire(t, outcome)
    \/ \E g \in Groups, kind \in MessageKinds : DualReceive(g, kind)
    \/ \E h \in handlers, ok \in BOOLEAN, outcome \in DualOutcomes : DualReplied(h, ok, outcome)
    \/ \E t \in BagToSet(timers) : DualIdleTimerFire(t)
    \/ Tick

Spec == Init /\ [][Next]_vars

\* the spacing between idle chats that dualBotService's header announces ("every 90 minutes")
idleChatInterval == 90

BurstAbandonedOnMessage ==
    \A b \in bursts : ~b.late

\* C6: a burst starts only if the time since the group's last recorded activity,
\* computed when the timer fires, is at least the idle threshold, and no burst starts
\* when a human's message reached the group before the timer fired.
BurstOnlyWhenIdle ==
    \A b \in bursts :
        /\ b.idleFor >= minIdleMinutes
        /\ ~b.raced

\* C7: two bursts of one group never start closer together than the cooldown.
BurstCooldownRespected ==
    \A b \in bursts : b.gap = -1 \/ b.gap >= idleChatInterval

\* C8: every inbound group message, whatever its kind, installs one new idle timer
\* whose delay is a finite number of minutes between minIdleMinutes and maxIdleMinutes.
InboundResetsTimerInRange ==
    inbound.svc # "none" =>
        /\ inbound.installed
        /\ inbound.finite
        /\ minIdleMinutes <= inbound.delay /\ inbound.delay <= maxIdleMinutes

\* C9: a shadow agent's message leads to at most one counter-reply of the primary agent
\* and the counter-reply leads to no further message: no message is more than two agent
\* messages deep in a reaction chain, and the only callback a burst turn leaves behind is
\* one counter-reply.
BounceBounded ==
    /\ lastSent.hops <= 2
    /\ \A t \in BagToSet(timers) :
        /\ t.hops <= 2
        /\ t.burst # 0 => t.kind = "counter" /\ CopiesIn(t, timers) = 1

\* a counter-reply has been sent and nothing is left to answer it
BounceWitness ==
    /\ lastSent.kind = "counter"
    /\ lastSent.hops = 2
    /\ \A t \in BagToSet(timers) : t.kind \notin ReplyKinds

\* this step cancels the idle timer one of the agents holds for the group and
\* installs a new one in its place
IdleTimerReplaced(g) ==
    \/ \E delay \in RandomDelays, respond \in BOOLEAN :
          LET timer == Timer("idleAvatar", g, dateNow + delay, 0, 0, 0)
              after == ReplaceTimer(timers, idleChatTimer[g], timer)
          IN  /\ idleChatTimer'[g] = timer
              /\ timers' = IF respond
                           THEN setTimeout(after, Timer("respondToHuman", g, dateNow, 1, 0, 0))
                           ELSE after
    \/ LET timer == Timer("idleDual", g, dateNow, 0, 0, 0)
       IN  /\ idleTimers'[g] = timer
           /\ timers' = ReplaceTimer(timers, idleTimers[g], timer)

\* C25: every step that records activity for a group, for a user's or an agent's
\* message, also cancels the group's idle timer and installs a new one.
ActivityRecordedReplacesTimer ==
    [][\A g \in Groups :
          (lastGroupActivity'[g] # lastGroupActivity[g] \/ lastActivityTime'[g] # lastActivityTime[g])
              => IdleTimerReplaced(g)]_vars

RECURSIVE clearTimers(_, _)
\* for (const timer of map.values()) clearTimeout(timer)
clearTimers(pending, handles) ==
    IF handles = {} THEN pending
    ELSE LET handle == CHOOSE h \in handles : TRUE
         IN  clearTimers(clearTimeout(pending, handle), handles \ {handle})

\* DualBotService.stop(), which calls AvatarService.stop()
StopService ==
    /\ ~stopped
    /\ stopped' = TRUE
    /\ timers' = clearTimers(clearTimers(timers, {idleChatTimer[g] : g \in Groups}),
                             {idleTimers[g] : g \in Groups})
    /\ UNCHANGED <<dateNow, idleChatTimer, lastGroupActivity, lastIdleChat, idleTimers,
                   lastActivityTime, handlers, bursts, inbound, lastSent, burstLog, dualIdle,
                   inboundCount>>
    /\ UNCHANGED <<histVars, segVars, routerVars, replyVars, callVars>>
    /\ UNCHANGED stoppedFrame

\* the 'message' handlers, which run while the bots are polling
Polled ==
    \/ \E g \in Groups, kind \in MessageKinds, isBot \in BOOLEAN : AvatarReceive(g, kind, isBot)
    \/ \E g \in Groups, kind \in MessageKinds : DualReceive(g, kind)

\* the timer callbacks and the continuations of awaits, which the event loop runs
Scheduled ==
    \/ \E h \in handlers, ok \in BOOLEAN : AvatarResume(h, ok)
    \/ \E t \in BagToSet(timers) : AvatarIdleTimerFire(t)
    \/ \E b \in bursts, ok \in BOOLEAN : BurstOpenerSent(b, ok)
    \/ \E b \in bursts : BurstSleepDone(b)
    \/ \E b \in bursts, outcome \in SendOutcomes, c \in CounterChoices : BurstTurn(b, outcome, c)
    \/ \E t \in BagToSet(timers), outcome \in SendOutcomes : ReplyFire(t, outcome)
    \/ \E h \in handlers, ok \in BOOLEAN, outcome \in DualOutcomes : DualReplied(h, ok, outcome)
    \/ \E t \in BagToSet(timers) : DualIdleTimerFire(t)
    \/ Tick

NextStop ==
    \/ ~stopped /\ Polled
    \/ Scheduled
    \/ StopService

SpecStop == Init /\ [][NextStop]_vars

\* the messages the agents send on their own: idle-chat openers and turns,
\* counter-replies and interjections
AutonomousKinds == {"opener", "turn", "counter", "respondToBongBong"}

\* the step runs an idle-timer callback
IdleCallbackFires ==
    \E t \in BagToSet(timers) :
        /\ t.kind \in {"idleAvatar", "idleDual"}
        /\ CopiesIn(t, timers') < CopiesIn(t, timers)

\* the step sends a message no user asked for
AutonomousMessageSent ==
    /\ lastSent' # lastSent
    /\ lastSent'.kind \in AutonomousKinds

\* C39: once stop() has returned no idle-timer callback fires and no further
\* autonomous message is sent.
QuietAfterStop ==
    [][stopped => ~IdleCallbackFires /\ ~AutonomousMessageSent]_vars

====
